---------------------------- MODULE Spec2Model ----------------------------
(***************************************************************************)
(* Model of the hill-climbing path finders of                              *)
(* src/2022/12/elf_hill_climbing_algorithm.py: Grid, Path, Seeker and      *)
(* Dijkstra.  A Point is a pair <<row, col>> with 0-based coordinates, a   *)
(* Grid is a record [nrow, ncol, grid, start, end] whose field grid maps   *)
(* every point to its height, and a path is a sequence of points.          *)
(***************************************************************************)
EXTENDS Integers, Sequences, FiniteSets, TLC

VARIABLES
    grid,       \* the Grid the finders work on (immutable after Init)
    pc,         \* position of the driver and of the running finder
    finder,     \* the finder handed to run(), "none" before
    path,       \* Seeker.path, or the points handed to Path
    walked,     \* Seeker.walked
    idx,        \* local i of Seeker.refine
    nodes,      \* Dijkstra.nodes: point -> DijkstraNode
    current,    \* local current of Dijkstra.search / reverse_search
    result,     \* the returned Path: [grid, path]
    raised,     \* name of the exception that ended the finder, or "none"
    rawlen,     \* observer: len(path) when Seeker.search called refine
    steps,      \* observer: iterations of the running loop so far
    call,       \* the method called on its own: [op, args]
    ret,        \* the value that call returned
    text,       \* the lines of the puzzle input, <<>> when there is none
    sensors,    \* day 15, Grid.sensors: a tuple of [location, beacon]
    x_range,    \* day 15, the x_range handed to distress_beacon_search
    y_range,    \* day 15, the y_range handed to distress_beacon_search
    tasks,      \* day 15, the chunks of rows no pool worker has taken yet
    worker,     \* day 15, worker -> the chunk it works on, <<>> when idle
    results,    \* day 15, the row results in the order the pool delivers them
    consumed,   \* day 15, how many delivered results the for loop has seen
    cave,       \* day 14, the Cave the driver holds
    crd,        \* day 14, what the last cave.simulate() returned
    pair,       \* day 13, the two packets <<a, b>> that are compared
    verdicts,   \* day 13, what the comparisons made so far came to
    line_point, \* day 15, point of the loop of _line_search
    knot,       \* day 9, Rope.knot: the positions of the knots, head first
    knot_history, \* day 9, Rope.knot_history: the positions each knot has had
    ins,        \* day 9, the instruction Rope.move is at: <<direction, steps left>>
    program,    \* day 10, the instructions of the input, in file order
    device,     \* day 10, the Device
    monkeys,    \* day 11, the list of Monkeys of each run: run -> monkeys
    thrown,     \* day 11, the throws of each run: run -> <<<<monkey, target>>, ...>>
    rounds,     \* day 11, the rounds each run has done: run -> number
    simulation, \* day 17, the Simulation that run() drives
    repetition_pattern, \* day 17, what search_cycle returned to main
    total_rocks, \* day 17, the number of rocks main asks the height for
    tower,      \* day 17, the height main prints for total_rocks
    cubes,      \* day 18, the origins of CubeCollection.cubes
    areas       \* day 18, what main printed: [free, exterior]

\* the variables of the finders of day 12
finderVars == <<finder, path, walked, idx, nodes, current, result, rawlen, steps>>

\* the variables of the beacon search of day 15
beaconVars == <<sensors, x_range, y_range, tasks, worker, results, consumed>>

\* the variables of the sand simulation of day 14
caveVars == <<cave, crd>>

\* the variables of the packet comparison of day 13
packetVars == <<pair, verdicts>>

\* the variables of the row search of day 15
lineVars == <<line_point>>

\* the programs of days 12 to 15
earlierVars == <<grid, finderVars, text, beaconVars, caveVars, packetVars, lineVars>>

\* the variables of the rope of day 9
ropeVars == <<knot, knot_history, ins>>

\* the variables of the device of day 10
deviceVars == <<program, device>>

\* the variables of the monkeys of day 11
monkeyVars == <<monkeys, thrown, rounds>>

\* the variables of the falling rocks of day 17
chamberVars == <<simulation, repetition_pattern, total_rocks, tower>>

\* the variables of the cubes of day 18
cubeVars == <<cubes, areas>>

\* the programs of days 17 and 18
lastVars == <<chamberVars, cubeVars>>

\* the variables of the programs modelled after day 13
laterVars == <<lineVars, ropeVars, deviceVars, monkeyVars, lastVars>>

\* the variables of the programs other than day 12
restVars == <<beaconVars, caveVars, packetVars, laterVars>>

\* the state outside the path finders of day 12
outerVars == <<call, ret, text, restVars>>

vars == <<grid, pc, finder, path, walked, idx, nodes, current, result, raised,
          rawlen, steps, outerVars>>

-----------------------------------------------------------------------------
(* Bounds of the explored inputs *)

\* heights of the small grids range over 0..MaxHeight (letters a, b, c, ...)
MaxHeight == 2
\* at most MaxRaised cells of a small grid have a height above 0
MaxRaised == 2
\* arbitrary point sequences handed to Path have at most MaxPathLen points
MaxPathLen == 3
\* day 9: a rope has at most MaxKnots knots, an instruction moves the head at
\* most MaxCount steps, and the head makes at most MaxHeadSteps steps in all
MaxKnots == 3
MaxCount == 2
MaxHeadSteps == 5
\* day 10: a program has at most MaxProgram instructions after its padding
MaxProgram == 4
\* day 11: the starting worry levels range over 1..MaxWorry, and at most
\* MaxRounds rounds are done
MaxWorry == 2
MaxRounds == 2

\* day 17: the longest jet pattern
MaxJets == 7

\* day 17: the most rocks a simulation drops
MaxRocks == 10

\* day 17: the largest number of rocks main is asked the height for
MaxTotalRocks == 20

\* day 18: the largest coordinate of a cube
MaxCoord == 2
\* day 13: the integers of the packets range over 0..MaxInt
MaxInt == 1
\* day 14: a Cave has at most MaxPaths rock paths
MaxPaths == 2
\* day 15: a Grid has at most MaxSensors sensors
MaxSensors == 2
\* day 15: the number of pool workers, max(cpu_count() - 2, 1) on the machine
PoolSize == 2
\* day 15: the chunksize of imap_unordered, BOUND // 40 in the program, scaled
\* down with the searched rows so that the rows still make several chunks
ChunkSize == 2

\* shapes <<nrow, ncol>> of the small grids the finders run on
SmallShapes == {<<3, 3>>, <<2, 3>>, <<3, 2>>, <<1, 4>>}
\* shapes of the grids that arbitrary point sequences are checked against
PathShapes == {<<2, 2>>}

-----------------------------------------------------------------------------
(* Program constants *)

CLIMB_HEIGHT == 1

\* the default width of Chamber and of Simulation
CHAMBER_WIDTH == 7

\* math.inf, the default distance of a DijkstraNode
Inf == 0 - 1

ValueError == "ValueError"
IndexError == "IndexError"
DijkstraEmptyPointsError == "DijkstraEmptyPointsError"

Alphabet == <<"a", "b", "c", "d", "e", "f", "g", "h", "i", "j", "k", "l", "m",
              "n", "o", "p", "q", "r", "s", "t", "u", "v", "w", "x", "y", "z">>

\* CHAR_HEIGHT: a..z are 0..25, S is the lowest height and E the highest
CHAR_HEIGHT(ch) ==
    IF ch = "S" THEN 0
    ELSE IF ch = "E" THEN 25
    ELSE (CHOOSE i \in 1..Len(Alphabet) : Alphabet[i] = ch) - 1

-----------------------------------------------------------------------------
(* Grid *)

Abs(n) == IF n < 0 THEN 0 - n ELSE n

\* Grid.points as a set
PointSet(g) == (0..(g.nrow - 1)) \X (0..(g.ncol - 1))

\* Grid.points: itertools.product(range(nrow), range(ncol)), row-major
Points(g) ==
    [k \in 1..(g.nrow * g.ncol) |-> <<(k - 1) \div g.ncol, (k - 1) % g.ncol>>]

InGrid(g, p) == p \in PointSet(g)

\* Grid.height and Grid.elevation raise ValueError for a point outside the
\* grid; HeightRaises / ElevationRaises name the exception ("none" when the call
\* returns) and Height / Elevation are the values returned
HeightRaises(g, p) == IF ~InGrid(g, p) THEN ValueError ELSE "none"

Height(g, p) == g.grid[p]

ElevationRaises(g, from, to) ==
    IF ~InGrid(g, from) \/ ~InGrid(g, to) THEN ValueError ELSE "none"

Elevation_Swapped(g, from, to) == Height(g, from) - Height(g, to)

Elevation(g, from, to) == Height(g, to) - Height(g, from)

\* Grid.cardinals without the test that keeps the points of the grid
Cardinals_Unfiltered(g, p) ==
    << <<p[1], p[2] + 1>>, <<p[1] - 1, p[2]>>,
       <<p[1] + 1, p[2]>>, <<p[1], p[2] - 1>> >>

\* Grid.cardinals: the list is built in the order right, up, down, left
Cardinals(g, p) ==
    SelectSeq(<< <<p[1], p[2] + 1>>, <<p[1] - 1, p[2]>>,
                 <<p[1] + 1, p[2]>>, <<p[1], p[2] - 1>> >>,
              LAMBDA q : InGrid(g, q))

Range(s) == {s[k] : k \in 1..Len(s)}

\* Grid.from_puzzle on the lines of a text, each a sequence of characters:
\* start and end come from the last line that holds an S and an E
FirstIndex(line, ch) ==
    IF \E k \in 1..Len(line) : line[k] = ch
    THEN (CHOOSE k \in 1..Len(line) :
            line[k] = ch /\ \A m \in 1..(k - 1) : line[m] # ch) - 1
    ELSE 0 - 1

LastLineWith(lines, ch) ==
    CHOOSE r \in 1..Len(lines) :
        /\ FirstIndex(lines[r], ch) # 0 - 1
        /\ \A m \in (r + 1)..Len(lines) : FirstIndex(lines[m], ch) = 0 - 1

FromPuzzle(lines) ==
    [nrow  |-> Len(lines),
     ncol  |-> Len(lines[1]),
     grid  |-> [p \in (0..(Len(lines) - 1)) \X (0..(Len(lines[1]) - 1)) |->
                    CHAR_HEIGHT(lines[p[1] + 1][p[2] + 1])],
     start |-> <<LastLineWith(lines, "S") - 1,
                 FirstIndex(lines[LastLineWith(lines, "S")], "S")>>,
     end   |-> <<LastLineWith(lines, "E") - 1,
                 FirstIndex(lines[LastLineWith(lines, "E")], "E")>>]

\* Colors.cyan + 'S' + Colors.default and Colors.cyan + 'E' + Colors.default
StartMarker == "\\033[36mS\\033[39m"
EndMarker == "\\033[36mE\\033[39m"

\* height_to_char of Grid._char_grid with S and E left in the dictionary: the
\* later keys S and E take the heights 0 and 25 over from a and z
HeightToChar_AllKeys(h) ==
    IF h = CHAR_HEIGHT("S") THEN "S"
    ELSE IF h = CHAR_HEIGHT("E") THEN "E"
    ELSE CHOOSE ch \in Range(Alphabet) : CHAR_HEIGHT(ch) = h

\* height_to_char of Grid._char_grid: CHAR_HEIGHT inverted on the keys a..z
HeightToChar(h) == CHOOSE ch \in Range(Alphabet) : CHAR_HEIGHT(ch) = h

\* Grid._char_grid: the character of every height, then the start marker and
\* after it the end marker written over their cells
CharGrid(g) ==
    [r \in 1..g.nrow |->
        [c \in 1..g.ncol |->
            IF <<r - 1, c - 1>> = g.end THEN EndMarker
            ELSE IF <<r - 1, c - 1>> = g.start THEN StartMarker
            ELSE HeightToChar(Height(g, <<r - 1, c - 1>>))]]

\* the sample puzzle input
SampleText ==
    << <<"S", "a", "b", "q", "p", "o", "n", "m">>,
       <<"a", "b", "c", "r", "y", "x", "x", "l">>,
       <<"a", "c", "c", "s", "z", "E", "x", "k">>,
       <<"a", "c", "c", "t", "u", "v", "w", "j">>,
       <<"a", "b", "d", "e", "f", "g", "h", "i">> >>

SampleGrid == FromPuzzle(SampleText)

-----------------------------------------------------------------------------
(* Path *)

\* Path.length
PathLength(p) == Len(p) - 1

\* mutant of ValidFrom: the loop returns after its first pair
ValidFrom_FirstPairOnly(g, p, k) ==
    IF k >= Len(p) THEN "True"
    ELSE IF p[k + 1] \notin Range(Cardinals(g, p[k])) THEN "False"
    ELSE IF ElevationRaises(g, p[k], p[k + 1]) # "none" THEN ValueError
    ELSE IF Elevation(g, p[k], p[k + 1]) > CLIMB_HEIGHT THEN "False"
    ELSE "True"

\* the loop of Path.valid from the pair (p[k], p[k+1]) on: "True", "False",
\* or "ValueError" when elevation raises
RECURSIVE ValidFrom(_, _, _)
ValidFrom(g, p, k) ==
    IF k >= Len(p) THEN "True"
    ELSE IF p[k + 1] \notin Range(Cardinals(g, p[k])) THEN "False"
    ELSE IF ElevationRaises(g, p[k], p[k + 1]) # "none" THEN ValueError
    ELSE IF Elevation(g, p[k], p[k + 1]) > CLIMB_HEIGHT THEN "False"
    ELSE ValidFrom(g, p, k + 1)

\* Path.valid: the exception it raises ("none" when it returns), and its value
PathValidRaises(g, p) ==
    IF p # <<>> /\ ValidFrom(g, p, 1) = ValueError THEN ValueError ELSE "none"

PathValid(g, p) == p # <<>> /\ ValidFrom(g, p, 1) = "True"

\* Path.complete: all((valid, path[0] == start, path[-1] == end)); the tuple is
\* built before all() runs, so the empty path raises IndexError
PathCompleteRaises(g, p) ==
    IF PathValidRaises(g, p) # "none" THEN PathValidRaises(g, p)
    ELSE IF p = <<>> THEN IndexError
    ELSE "none"

\* mutant of PathComplete: valid is left out of the conjunction
PathComplete_EndsOnly(g, p) ==
    /\ PathCompleteRaises(g, p) = "none"
    /\ p[1] = g.start
    /\ p[Len(p)] = g.end

PathComplete(g, p) ==
    /\ PathCompleteRaises(g, p) = "none"
    /\ PathValid(g, p)
    /\ p[1] = g.start
    /\ p[Len(p)] = g.end

-----------------------------------------------------------------------------
(* Seeker *)

NoPoint == <<>>

Last(s) == s[Len(s)]

\* Seeker.metric multiplied by nrow + ncol: the code computes
\* (nrow/tot) * |drow| + (ncol/tot) * |dcol| in floating point; for the grids
\* explored here two points compare the same way under both
Metric(g, p) ==
    g.nrow * Abs(p[1] - g.end[1]) + g.ncol * Abs(p[2] - g.end[2])

\* mutant of MinBy: on a tie the last element with the smallest key
MinBy_LastMinimum(seq, keys) ==
    IF seq = <<>> THEN NoPoint
    ELSE seq[CHOOSE k \in 1..Len(seq) :
                /\ \A m \in 1..(k - 1) : keys[m] >= keys[k]
                /\ \A m \in (k + 1)..Len(seq) : keys[m] > keys[k]]

\* min(seq, key=...) with keys[k] the key of seq[k]: the first element with
\* the smallest key, None when seq is empty
MinBy(seq, keys) ==
    IF seq = <<>> THEN NoPoint
    ELSE seq[CHOOSE k \in 1..Len(seq) :
                /\ \A m \in 1..(k - 1) : keys[m] > keys[k]
                /\ \A m \in (k + 1)..Len(seq) : keys[m] >= keys[k]]

\* [key(x) for x in seq] for the key Seeker.metric
MetricKeys(g, seq) == [k \in 1..Len(seq) |-> Metric(g, seq[k])]

\* mutant of GetStep: walked is not consulted
GetStep_IgnoreWalked(g, wlk, p) ==
    LET cand == SelectSeq(Cardinals(g, p),
                          LAMBDA q : Elevation(g, p, q) <= CLIMB_HEIGHT)
    IN MinBy(cand, MetricKeys(g, cand))

\* mutant of GetStep: the climb is limited in both directions
GetStep_NoDescent(g, wlk, p) ==
    LET cand == SelectSeq(Cardinals(g, p),
                          LAMBDA q : q \notin Range(wlk)
                                     /\ Abs(Elevation(g, p, q)) <= CLIMB_HEIGHT)
    IN MinBy(cand, MetricKeys(g, cand))

\* mutant of GetStep: the climb is not limited
GetStep_AnyClimb(g, wlk, p) ==
    LET cand == SelectSeq(Cardinals(g, p), LAMBDA q : q \notin Range(wlk))
    IN MinBy(cand, MetricKeys(g, cand))

\* Seeker.get_step
GetStep(g, wlk, p) ==
    LET cand == SelectSeq(Cardinals(g, p),
                          LAMBDA q : q \notin Range(wlk)
                                     /\ Elevation(g, p, q) <= CLIMB_HEIGHT)
    IN MinBy(cand, MetricKeys(g, cand))

\* list.index: 0-based position of the first occurrence
IndexOf(s, x) == (CHOOSE k \in 1..Len(s) :
                    s[k] = x /\ \A m \in 1..(k - 1) : s[m] # x) - 1

\* [key(x) for x in seq] for the key Seeker.step_count
StepCounts(pth, seq) == [k \in 1..Len(seq) |-> IndexOf(pth, seq[k])]

\* s[:n] of Python, n may be negative
SliceTo(s, n) ==
    IF n >= 0 THEN SubSeq(s, 1, IF n < Len(s) THEN n ELSE Len(s))
    ELSE SubSeq(s, 1, IF Len(s) + n > 0 THEN Len(s) + n ELSE 0)

\* s[n:] of Python for n >= 0
SliceFrom(s, n) == SubSeq(s, n + 1, Len(s))

\* mutant of GetLoopback: the slice stops two points early, path[:index-3]
GetLoopback_ShortSlice(g, pth, index) ==
    LET cand == SelectSeq(Cardinals(g, pth[index + 1]),
                   LAMBDA q : q \in Range(SliceTo(pth, IF index >= 3 THEN index - 3 ELSE 0))
                              /\ Elevation(g, q, pth[index + 1]) <= CLIMB_HEIGHT)
    IN MinBy(cand, StepCounts(pth, cand))

\* Seeker.get_loopback (index is 0-based); Seeker.step_count is the key
GetLoopback(g, pth, index) ==
    LET cand == SelectSeq(Cardinals(g, pth[index + 1]),
                          LAMBDA q : q \in Range(SliceTo(pth, index - 1))
                                     /\ Elevation(g, q, pth[index + 1]) <= CLIMB_HEIGHT)
    IN MinBy(cand, StepCounts(pth, cand))

\* mutant of Splice: path[:j+1] + path[i-1:]
Splice_KeepsPrevious(pth, j, i) == SliceTo(pth, j + 1) \o SliceFrom(pth, i - 1)

\* the splice of Seeker.refine: path[:j+1] + path[i:]
Splice(pth, j, i) == SliceTo(pth, j + 1) \o SliceFrom(pth, i)

\* one iteration of the while loop of Seeker.refine from local i:
\* the new <<path, i>>
RefineBody(g, pth, i) ==
    LET loopback == GetLoopback(g, pth, i + 1) IN
    IF loopback # NoPoint
    THEN <<Splice(pth, IndexOf(pth, loopback), i + 1), IndexOf(pth, loopback)>>
    ELSE <<pth, i + 1>>

\* Seeker.refine run to its return on a path that holds the end
RECURSIVE RefineFrom(_, _, _)
RefineFrom(g, pth, i) ==
    IF pth[i + 1] = g.end THEN pth
    ELSE RefineFrom(g, RefineBody(g, pth, i)[1], RefineBody(g, pth, i)[2])

Refine(g, pth) == IF pth = <<>> THEN pth ELSE RefineFrom(g, pth, 0)

-----------------------------------------------------------------------------
(* Dijkstra *)

\* DijkstraNode()
DijkstraNode == [distance |-> Inf, visited |-> FALSE, previous |-> NoPoint]

\* a < b on distances, math.inf being the largest
DistLess(a, b) == a # Inf /\ (b = Inf \/ a < b)

InitNodes(g, source) ==
    [p \in PointSet(g) |->
        IF p = source THEN [DijkstraNode EXCEPT !.distance = 0] ELSE DijkstraNode]

\* Dijkstra._unvisited_points
UnvisitedPoints(g, nd) == SelectSeq(Points(g), LAMBDA p : ~nd[p].visited)

\* Dijkstra._closest_point: min() keeps the first point of smallest distance;
\* NoPoint stands for raising DijkstraEmptyPointsError
ClosestPoint(nd, pts) ==
    IF pts = <<>> THEN NoPoint
    ELSE pts[CHOOSE k \in 1..Len(pts) :
                /\ \A m \in 1..(k - 1) : DistLess(nd[pts[k]].distance, nd[pts[m]].distance)
                /\ \A m \in (k + 1)..Len(pts) :
                       ~DistLess(nd[pts[m]].distance, nd[pts[k]].distance)]

\* Dijkstra._unvisited_neighbours
UnvisitedNeighbours(g, nd, p) == SelectSeq(Cardinals(g, p), LAMBDA q : ~nd[q].visited)

\* mutant of Admissible: the comparison is strict, no climb is admissible
Admissible_Strict(g, cur, nb, reverse) ==
    IF reverse THEN Elevation(g, nb, cur) < CLIMB_HEIGHT
    ELSE Elevation(g, cur, nb) < CLIMB_HEIGHT

\* mutant of Admissible: the climb is limited in both directions
Admissible_NoDescent(g, cur, nb, reverse) ==
    Abs(Elevation(g, cur, nb)) <= CLIMB_HEIGHT

\* the admissibility test of update_distance in search and in reverse_search
Admissible(g, cur, nb, reverse) ==
    IF reverse THEN Elevation(g, nb, cur) <= CLIMB_HEIGHT
    ELSE Elevation(g, cur, nb) <= CLIMB_HEIGHT

\* update_distance(neighbour)
UpdateDistance(g, nd, cur, nb, reverse) ==
    IF Admissible(g, cur, nb, reverse)
       /\ DistLess(nd[cur].distance + 1, nd[nb].distance)
    THEN [nd EXCEPT ![nb].distance = nd[cur].distance + 1, ![nb].previous = cur]
    ELSE nd

\* for neighbour in self._unvisited_neighbours(current): update_distance(neighbour)
RECURSIVE Relax(_, _, _, _, _)
Relax(g, nd, cur, nbs, reverse) ==
    IF nbs = <<>> THEN nd
    ELSE Relax(g, UpdateDistance(g, nd, cur, Head(nbs), reverse), cur, Tail(nbs), reverse)

\* the body of the while loop of search / reverse_search
VisitBody(g, nd, cur, reverse) ==
    [Relax(g, nd, cur, UnvisitedNeighbours(g, nd, cur), reverse)
        EXCEPT ![cur].visited = TRUE]

Reverse(s) == [k \in 1..Len(s) |-> s[Len(s) + 1 - k]]

\* Dijkstra._backtrack_path
RECURSIVE Chain(_, _)
Chain(nd, p) == IF p = NoPoint THEN <<>> ELSE <<p>> \o Chain(nd, nd[p].previous)

BacktrackPath(nd, p, reverse) == IF reverse THEN Reverse(Chain(nd, p)) ELSE Chain(nd, p)

\* the points of height 0, in the order of Grid.points
ZeroPoints(g) == SelectSeq(Points(g), LAMBDA p : Height(g, p) = 0)

-----------------------------------------------------------------------------
(* Day 15: Sensor, Grid._line_search and the pool of distress_beacon_search. *)
(* A Coordinate is a pair <<x, y>>, a Sensor a record [location, beacon],    *)
(* and None is the empty tuple.                                              *)

GridError == "GridError"

None == <<>>

\* distance(p1, p2)
Distance(p1, p2) == Abs(p1[1] - p2[1]) + Abs(p1[2] - p2[2])

\* Sensor.distance
SensorDistance(s, x, y) == Distance(s.location, <<x, y>>)

\* Sensor.beacon_distance
BeaconDistance(s) == SensorDistance(s, s.beacon[1], s.beacon[2])

\* Sensor.is_covered
SensorIsCovered(s, x, y) == SensorDistance(s, x, y) <= BeaconDistance(s)

\* Sensor.cross_horizontal: the first x of row y to the right of the sensor's
\* zone (its assert holds whenever the sensor covers (x, y))
CrossHorizontal(s, x, y) ==
    <<s.location[1] + (BeaconDistance(s) - Abs(y - s.location[2])) + 1, y>>

\* Grid.is_covered of day 15
IsCovered(ss, x, y) == \E k \in 1..Len(ss) : SensorIsCovered(ss[k], x, y)

\* mutant of FarthestCrossing: the crossing of the first covering sensor
FarthestCrossing_First(ss, point) ==
    CrossHorizontal(SelectSeq(ss, LAMBDA s : SensorIsCovered(s, point[1], point[2]))[1],
                    point[1], point[2])

\* the max(...) of _line_search: the crossing of the covering sensors that
\* lies farthest to the right, the first one of them
FarthestCrossing(ss, point) ==
    LET covering == SelectSeq(ss, LAMBDA s : SensorIsCovered(s, point[1], point[2]))
        crossing == [k \in 1..Len(covering) |->
                        CrossHorizontal(covering[k], point[1], point[2])]
    IN crossing[CHOOSE k \in 1..Len(crossing) :
          /\ \A m \in 1..(k - 1) :
                crossing[m][1] - point[1] < crossing[k][1] - point[1]
          /\ \A m \in (k + 1)..Len(crossing) :
                crossing[m][1] - point[1] <= crossing[k][1] - point[1]]

\* the test of _line_search with <= in the place of <
PastBound_Inclusive(x_max, x) == x_max <= x

\* if x_max < point[0]
PastBound(x_max, x) == x_max < x

\* the while loop of Grid._line_search, entered with point
RECURSIVE LineSearchFrom(_, _, _)
LineSearchFrom(ss, x_max, point) ==
    IF ~IsCovered(ss, point[1], point[2]) THEN point
    ELSE IF PastBound(x_max, FarthestCrossing(ss, point)[1]) THEN None
    ELSE LineSearchFrom(ss, x_max, FarthestCrossing(ss, point))

\* Grid._line_search((x_min, x_max, y))
LineSearch(ss, args) == LineSearchFrom(ss, args[2], <<args[1], args[3]>>)

\* range(y_min, y_max + 1) as a tuple
RowsOf(yr) == [k \in 1..(yr[2] - yr[1] + 1) |-> yr[1] + k - 1]

\* the chunks imap_unordered cuts the rows into: size rows each, the last one
\* the rest
GetTasks(rows, size) ==
    [i \in 1..((Len(rows) + size - 1) \div size) |->
        SubSeq(rows, (i - 1) * size + 1,
               IF i * size < Len(rows) THEN i * size ELSE Len(rows))]

\* mapstar: the worker maps _line_search over the rows of its chunk
MapChunk(ss, xr, chunk) ==
    [k \in 1..Len(chunk) |-> LineSearch(ss, <<xr[1], xr[2], chunk[k]>>)]

-----------------------------------------------------------------------------
(* Day 9: Rope.  A Position is a pair <<p0, p1>>; R and L change p1, U and D  *)
(* change p0.                                                                *)

\* mutant of RopeAdjacent: knots that touch diagonally do not count
RopeAdjacent_NoDiagonal(knot1, knot2) ==
    Abs(knot1[1] - knot2[1]) + Abs(knot1[2] - knot2[2]) <= 1

\* Rope.adjacent
RopeAdjacent(knot1, knot2) ==
    ~(Abs(knot1[1] - knot2[1]) > 1 \/ Abs(knot1[2] - knot2[2]) > 1)

\* sgn
Sgn(x) == IF x > 0 THEN 1 ELSE IF x < 0 THEN 0 - 1 ELSE 0

Directions == {"R", "L", "U", "D"}

\* movement_map[direction](h)
MovementMap(direction, h) ==
    CASE direction = "R" -> <<h[1], h[2] + 1>>
      [] direction = "L" -> <<h[1], h[2] - 1>>
      [] direction = "U" -> <<h[1] + 1, h[2]>>
      [] direction = "D" -> <<h[1] - 1, h[2]>>

\* a Rope as the record [knot, knot_history]: move_head(direction)
MoveHead(rope, direction) ==
    LET h == MovementMap(direction, rope.knot[1])
    IN [knot |-> [rope.knot EXCEPT ![1] = h],
        knot_history |-> [rope.knot_history EXCEPT ![1] = Append(@, h)]]

\* ripple_movment: the for loop from the knot with index i (0-based) on
RECURSIVE RippleFrom(_, _)
RippleFrom(rope, i) ==
    IF i >= Len(rope.knot) THEN rope
    ELSE IF RopeAdjacent(rope.knot[i], rope.knot[i + 1]) THEN RippleFrom(rope, i + 1)
    ELSE LET delta == <<rope.knot[i][1] - rope.knot[i + 1][1],
                        rope.knot[i][2] - rope.knot[i + 1][2]>>
             moved == <<rope.knot[i + 1][1] + Sgn(delta[1]),
                        rope.knot[i + 1][2] + Sgn(delta[2])>>
         IN RippleFrom([knot |-> [rope.knot EXCEPT ![i + 1] = moved],
                        knot_history |->
                            [rope.knot_history EXCEPT ![i + 1] = Append(@, moved)]],
                       i + 1)

RippleMovement(rope) == RippleFrom(rope, 1)

-----------------------------------------------------------------------------
(* Day 10: Device.  An Instruction is a pair <<name, arg>>, the Device a     *)
(* record of its attributes; pixels maps <<row, column>> to "." or "#", and  *)
(* executing_instruction is None or [remaning_cycles, instruction, arg].     *)

\* Device(instruction_queue, record_at)
NewDevice(instruction_queue, record_at) ==
    [X |-> 1,
     signal_strengths |-> <<>>,
     record_at |-> record_at,
     instruction_queue |-> instruction_queue,
     executing_instruction |-> None,
     cycle |-> 0,
     pixels |-> [rc \in (0..5) \X (0..39) |-> "."]]

\* Device.instructions_remaning
InstructionsRemaning(d) == d.instruction_queue # <<>>

\* Device.sprite
Sprite(d) == {d.X - 1, d.X, d.X + 1}

\* Device.start_instruction: a noop takes one cycle, anything else two
StartInstruction(i) ==
    IF i[1] = "noop"
    THEN [remaning_cycles |-> 1, instruction |-> "noop", arg |-> i[2]]
    ELSE [remaning_cycles |-> 2, instruction |-> "addx", arg |-> i[2]]

\* mutant of CrtPosition: the column is counted from the cycle, not from cycle - 1
CrtPosition_FromCycle(d) == <<((d.cycle - 1) % 240) \div 40, (d.cycle % 240) % 40>>

\* Device.crt_position
CrtPosition(d) == <<((d.cycle - 1) % 240) \div 40, ((d.cycle - 1) % 240) % 40>>

\* Device.draw_pixel
DrawPixel(d) ==
    [d EXCEPT !.pixels[CrtPosition(d)] = IF CrtPosition(d)[2] \in Sprite(d) THEN "#" ELSE "."]

\* reversed(instructions), and list.pop() on the reversed list
Reversed(s) == [k \in 1..Len(s) |-> s[Len(s) + 1 - k]]

\* the instruction that addx, noop apply to X once the instruction is over
Finish(d) ==
    IF d.executing_instruction.remaning_cycles # 0 THEN d
    ELSE [d EXCEPT !.X = IF d.executing_instruction.instruction = "addx"
                         THEN @ + d.executing_instruction.arg ELSE @,
                   !.executing_instruction = None]

\* Device.run_cycle on a device whose queue is not empty or which is executing
RunCycle(d) ==
    LET counted == [d EXCEPT !.cycle = @ + 1]
        started == IF counted.executing_instruction = None
                   THEN [counted EXCEPT
                           !.executing_instruction =
                               StartInstruction(Last(counted.instruction_queue)),
                           !.instruction_queue = SubSeq(@, 1, Len(@) - 1)]
                   ELSE counted
        recorded == IF \E k \in 1..Len(started.record_at) :
                           started.record_at[k] = started.cycle
                    THEN [started EXCEPT
                            !.signal_strengths =
                                Append(@, <<started.cycle, started.X * started.cycle>>)]
                    ELSE started
        drawn == DrawPixel(recorded)
    IN Finish([drawn EXCEPT !.executing_instruction.remaning_cycles = @ - 1])

-----------------------------------------------------------------------------
(* Day 11: Monkey and do_rounds.  A Monkey is the record of its attributes:  *)
(* operation is [kind, c] for the four expressions get_operation knows,      *)
(* worry_op is [kind, c] for n // 3, n % clock_size and for no reduction,    *)
(* test is the divisor of "divisible by".  Worry levels are Python integers,  *)
(* which do not overflow.                                                    *)

\* the callables get_operation returns
Operation(op, n) ==
    CASE op.kind = "old * old" -> n * n
      [] op.kind = "old + old" -> n * 2
      [] op.kind = "old *" -> n * op.c
      [] op.kind = "old +" -> n + op.c

\* the worry decrease operations: lambda n: n // 3, lambda n: n % clock_size,
\* and lambda n: n for a run without reduction
WorryOp(op, n) ==
    CASE op.kind = "n // 3" -> n \div 3
      [] op.kind = "n % clock_size" -> n % op.c
      [] op.kind = "n" -> n

\* the callable get_test returns
Test(divisor, n) == n % divisor = 0

\* mutant of ClockSize: the largest divisor
ClockSize_Largest(divisors) ==
    CHOOSE d \in Range(divisors) : \A e \in Range(divisors) : e <= d

\* clock_size = reduce(lambda x, y: x * y, get_divisors())
RECURSIVE ClockSize(_)
ClockSize(divisors) ==
    IF Len(divisors) = 1 THEN divisors[1]
    ELSE ClockSize(SubSeq(divisors, 1, Len(divisors) - 1)) * divisors[Len(divisors)]

\* Monkey.inspect: the monkey after the inspection; the target is Target of it
Inspect(m) ==
    [m EXCEPT !.inspection_count = @ + 1,
              !.items[1] = WorryOp(m.worry_op, Operation(m.operation, m.items[1]))]

\* what inspect returns, read off the inspected monkey
Target(m) == IF Test(m.test, m.items[1]) THEN m.true_monkey ELSE m.false_monkey

\* monkeys[target_monkey].catch(monkey.throw()) for the monkey with index i
ThrowTo(ms, i, target_monkey) ==
    [k \in 1..Len(ms) |->
        IF k = i + 1 /\ k = target_monkey + 1
          THEN [ms[k] EXCEPT !.items = Append(Tail(@), ms[i + 1].items[1])]
        ELSE IF k = i + 1 THEN [ms[k] EXCEPT !.items = Tail(@)]
        ELSE IF k = target_monkey + 1
          THEN [ms[k] EXCEPT !.items = Append(@, ms[i + 1].items[1])]
        ELSE ms[k]]

\* one round of do_rounds from the monkey with index i on: the loop over the
\* monkeys and the while loop of each; [monkeys, thrown]
RECURSIVE RoundFrom(_, _, _)
RoundFrom(ms, log, i) ==
    IF i >= Len(ms) THEN [monkeys |-> ms, thrown |-> log]
    ELSE IF ms[i + 1].items = <<>> THEN RoundFrom(ms, log, i + 1)
    ELSE LET inspected == [ms EXCEPT ![i + 1] = Inspect(ms[i + 1])]
             target_monkey == Target(inspected[i + 1])
         IN RoundFrom(ThrowTo(inspected, i, target_monkey),
                      Append(log, <<i, target_monkey>>), i)

-----------------------------------------------------------------------------
(* Day 13: compare and PacketData.  A packet is a record [t, v]: an integer  *)
(* is [t |-> "int", v |-> n], a list is [t |-> "list", v |-> <<p1, ...>>],   *)
(* and NoneP stands for the None that zip_longest fills in.                  *)

InconclusiveComparisonError == "InconclusiveComparisonError"

\* the members of Decision
IN_ORDER == "IN_ORDER"
OUT_OF_ORDER == "OUT_OF_ORDER"
INCONCLUSIVE == "INCONCLUSIVE"

IntP(n) == [t |-> "int", v |-> n]
ListP(ps) == [t |-> "list", v |-> ps]
NoneP == [t |-> "none", v |-> 0]

RECURSIVE InnerCompare(_, _)
RECURSIVE ZipCompare(_, _, _)
RECURSIVE ZipCompare_Shortest(_, _, _)

\* the for loop of inner_compare with zip in the place of zip_longest: it
\* stops at the end of the shorter list
ZipCompare_Shortest(ls, rs, k) ==
    IF k > Len(ls) \/ k > Len(rs) THEN INCONCLUSIVE
    ELSE IF InnerCompare(ls[k], rs[k]) # INCONCLUSIVE THEN InnerCompare(ls[k], rs[k])
    ELSE ZipCompare_Shortest(ls, rs, k + 1)

\* the for loop of inner_compare over zip_longest(left, right, fillvalue=None),
\* entered at the k-th pair
ZipCompare(ls, rs, k) ==
    IF k > Len(ls) /\ k > Len(rs) THEN INCONCLUSIVE
    ELSE LET inner_left  == IF k <= Len(ls) THEN ls[k] ELSE NoneP
             inner_right == IF k <= Len(rs) THEN rs[k] ELSE NoneP
         IN IF InnerCompare(inner_left, inner_right) # INCONCLUSIVE
            THEN InnerCompare(inner_left, inner_right)
            ELSE ZipCompare(ls, rs, k + 1)

\* inner_compare(left, right)
InnerCompare(l, r) ==
    IF l.t = "none" THEN IN_ORDER
    ELSE IF r.t = "none" THEN OUT_OF_ORDER
    ELSE IF l.t = "int" /\ r.t = "int"
         THEN IF l.v = r.v THEN INCONCLUSIVE
              ELSE IF l.v < r.v THEN IN_ORDER
              ELSE OUT_OF_ORDER
    ELSE IF l.t = "int" /\ r.t = "list" THEN InnerCompare(ListP(<<l>>), r)
    ELSE IF l.t = "list" /\ r.t = "int" THEN InnerCompare(l, ListP(<<r>>))
    ELSE ZipCompare(l.v, r.v, 1)

\* compare(left, right): raises on INCONCLUSIVE, else returns result.value
CompareRaises(l, r) ==
    IF InnerCompare(l, r) = INCONCLUSIVE THEN InconclusiveComparisonError ELSE "none"

Compare(l, r) == InnerCompare(l, r) = IN_ORDER

\* PacketData.__lt__ returns compare(self.data, other.data)
PacketLtRaises(a, b) == CompareRaises(a, b)

PacketLt(a, b) == Compare(a, b)

\* PacketData.__eq__: True when compare raises, False when it returns
PacketEq(a, b) == CompareRaises(a, b) = InconclusiveComparisonError

\* what evaluating an expression came to: the exception, or the boolean
Verdict(exception, value) ==
    IF exception # "none" THEN exception ELSE IF value THEN "True" ELSE "False"

\* sorted(...) of a short list: binary insertion with <, the only comparison
\* list.sort makes; [raised, pos], pos the place of pivot in srt[l+1..r]
RECURSIVE BinarySearch(_, _, _, _)
BinarySearch(srt, pivot, l, r) ==
    IF l >= r THEN [raised |-> "none", pos |-> l]
    ELSE LET p == l + (r - l) \div 2
         IN IF PacketLtRaises(pivot, srt[p + 1]) # "none"
            THEN [raised |-> PacketLtRaises(pivot, srt[p + 1]), pos |-> 0]
            ELSE IF PacketLt(pivot, srt[p + 1]) THEN BinarySearch(srt, pivot, l, p)
            ELSE BinarySearch(srt, pivot, p + 1, r)

InsertAt(srt, pos, x) == SubSeq(srt, 1, pos) \o <<x>> \o SubSeq(srt, pos + 1, Len(srt))

\* [raised, value] of sorting rest into the sorted srt
RECURSIVE SortInto(_, _)
SortInto(srt, rest) ==
    IF rest = <<>> THEN [raised |-> "none", value |-> srt]
    ELSE IF BinarySearch(srt, Head(rest), 0, Len(srt)).raised # "none"
         THEN [raised |-> BinarySearch(srt, Head(rest), 0, Len(srt)).raised,
               value |-> <<>>]
    ELSE SortInto(InsertAt(srt, BinarySearch(srt, Head(rest), 0, Len(srt)).pos,
                           Head(rest)),
                  Tail(rest))

SortedRaises(ps) == SortInto(<<>>, ps).raised

Sorted(ps) == SortInto(<<>>, ps).value

\* dividers = [PacketData([[2]]), PacketData([[6]])]
Dividers == <<ListP(<<ListP(<<IntP(2)>>)>>), ListP(<<ListP(<<IntP(6)>>)>>)>>

-----------------------------------------------------------------------------
(* Day 14: Path.coordinates and Cave.  A Cave is a record [source_coordinate, *)
(* rock_paths, sand_coordinates, has_floor, padding], a rock path the tuple   *)
(* of its edges, and an Entity is one of "air", "rock", "sand", "source".     *)

CaveOutOfBoundsError == "CaveOutOfBoundsError"
CaveCannotAddSandError == "CaveCannotAddSandError"

SetMin(S) == CHOOSE m \in S : \A n \in S : m <= n
SetMax(S) == CHOOSE m \in S : \A n \in S : n <= m

\* expand(start, end) of Path.coordinates
Expand(start, end) ==
    IF start[1] # end[1]
    THEN {<<i, start[2]>> : i \in SetMin({start[1], end[1]})..SetMax({start[1], end[1]})}
    ELSE {<<start[1], i>> : i \in SetMin({start[2], end[2]})..SetMax({start[2], end[2]})}

\* Path.coordinates: a path of a single edge has no coordinates
Coordinates(edges) ==
    UNION {Expand(edges[k], edges[k + 1]) : k \in 1..(Len(edges) - 1)}

\* Cave.rock_coordinates, as a set
RockCoordinates(c) ==
    UNION {Coordinates(c.rock_paths[k]) : k \in 1..Len(c.rock_paths)}

\* the coordinates Cave.x_range and Cave.y_range look at
Occupied(c) ==
    RockCoordinates(c) \cup {c.source_coordinate} \cup Range(c.sand_coordinates)

\* Cave.y_range
YRange(c) ==
    <<SetMin({p[2] : p \in Occupied(c)}), SetMax({p[2] : p \in Occupied(c)})>>

\* Cave.floor_level of a cave with a floor: max() raises ValueError when the
\* cave has no rock
FloorLevelRaises(c) ==
    IF c.has_floor /\ RockCoordinates(c) = {} THEN ValueError ELSE "none"

FloorLevel(c) == SetMax({p[2] : p \in RockCoordinates(c)}) + 2

\* Cave.__contains__: min_y <= y <= self.floor_level looks at the floor level
\* only when min_y <= y holds
ContainsRaises(c, p) ==
    IF c.has_floor /\ YRange(c)[1] <= p[2] THEN FloorLevelRaises(c) ELSE "none"

Contains(c, p) ==
    IF ~c.has_floor THEN YRange(c)[1] <= p[2]
    ELSE YRange(c)[1] <= p[2] /\ p[2] <= FloorLevel(c)

\* Cave.grid: the source, then the rock, then the sand are written
GridAt(c, p) ==
    IF p \in Range(c.sand_coordinates) THEN "sand"
    ELSE IF p \in RockCoordinates(c) THEN "rock"
    ELSE IF p = c.source_coordinate THEN "source"
    ELSE "air"

\* Cave.__getitem__
GetItemRaises(c, p) ==
    IF ContainsRaises(c, p) # "none" THEN ContainsRaises(c, p)
    ELSE IF ~Contains(c, p) THEN CaveOutOfBoundsError
    ELSE "none"

GetItem(c, p) ==
    IF c.has_floor /\ p[2] = FloorLevel(c) THEN "rock" ELSE GridAt(c, p)

\* step(x, y) of Cave.simulate: [raised, value], value None when the grain
\* falls for ever or the step raises
RECURSIVE Step(_, _)
Step(c, p) ==
    LET down  == <<p[1], p[2] + 1>>
        left  == <<p[1] - 1, p[2] + 1>>
        right == <<p[1] + 1, p[2] + 1>>
    IN IF ~c.has_floor /\ YRange(c)[2] < p[2] THEN [raised |-> "none", value |-> None]
       ELSE IF GetItemRaises(c, down) # "none"
            THEN [raised |-> GetItemRaises(c, down), value |-> None]
       ELSE IF GetItem(c, down) = "air" THEN Step(c, down)
       ELSE IF GetItemRaises(c, left) # "none"
            THEN [raised |-> GetItemRaises(c, left), value |-> None]
       ELSE IF GetItem(c, left) = "air" THEN Step(c, left)
       ELSE IF GetItemRaises(c, right) # "none"
            THEN [raised |-> GetItemRaises(c, right), value |-> None]
       ELSE IF GetItem(c, right) = "air" THEN Step(c, right)
       ELSE [raised |-> "none", value |-> p]

\* Cave.simulate
SimulateRaises(c) == Step(c, c.source_coordinate).raised

Simulate(c) == Step(c, c.source_coordinate).value

\* Cave.add_sand that does not look at what the position holds
AddSandRaises_NoOccupiedTest(c, p) ==
    IF ContainsRaises(c, p) # "none" THEN ContainsRaises(c, p)
    ELSE IF ~Contains(c, p) THEN CaveOutOfBoundsError
    ELSE "none"

\* Cave.add_sand
AddSandRaises(c, p) ==
    IF ContainsRaises(c, p) # "none" THEN ContainsRaises(c, p)
    ELSE IF ~Contains(c, p) THEN CaveOutOfBoundsError
    ELSE IF GetItem(c, p) \in {"rock", "sand"} THEN CaveCannotAddSandError
    ELSE "none"

AddSand(c, p) == [c EXCEPT !.sand_coordinates = Append(@, p)]

\* Cave.add_floor
AddFloor(c) == [c EXCEPT !.has_floor = TRUE]

-----------------------------------------------------------------------------
(* Day 17: RockShape, Rock, Chamber, Simulation, search_cycle and main.  A    *)
(* Position is a pair <<x, y>>: x is the row, counted from the floor, y the   *)
(* column.  A Chamber is [width, height, rows, nrocks], rows being the        *)
(* function from the rows that have a key to their sets of columns.  A        *)
(* Simulation is [chamber, rocks, jets, jet_iterations]: rocks is the number  *)
(* of rocks taken from the iterator rocks(), jets the pattern that cycle_jets *)
(* repeats, of which jet_iterations jets have been taken.                     *)

\* coordinates(drawing); a drawing is a tuple of rows, a row a tuple of "#" and "."
DrawingCoordinates(drawing) ==
    LET height == Len(drawing)
        width == SetMax({Len(drawing[r]) : r \in 1..height})
    IN { <<height - rc[1], rc[2] - 1>> :
           rc \in { q \in (1..height) \X (1..width) : drawing[q[1]][q[2]] = "#" } }

\* RockShape, in the order of the enumeration
RockShape ==
    << DrawingCoordinates(<< <<"#", "#", "#", "#">> >>),
       DrawingCoordinates(<< <<".", "#", ".">>,
                             <<"#", "#", "#">>,
                             <<".", "#", ".">> >>),
       DrawingCoordinates(<< <<".", ".", "#">>,
                             <<".", ".", "#">>,
                             <<"#", "#", "#">> >>),
       DrawingCoordinates(<< <<"#">>, <<"#">>, <<"#">>, <<"#">> >>),
       DrawingCoordinates(<< <<"#", "#">>,
                             <<"#", "#">> >>) >>

\* rocks(): the shape of the rock taken after taken others were
NextShape(taken) == RockShape[(taken % Len(RockShape)) + 1]

\* Rock.positions
RockPositions(shape, x, y) == { <<x + d[1], y + d[2]>> : d \in shape }

\* Chamber.__init__
NewChamber(width) ==
    [width |-> width, height |-> 0, rows |-> <<>>, nrocks |-> 0]

\* Chamber.__contains__
ChamberContains(ch, position) ==
    /\ position[1] \in DOMAIN ch.rows
    /\ position[2] \in ch.rows[position[1]]

\* Chamber.starting_position
StartingPosition(ch) == <<3 + ch.height, 2>>

\* the for loop of add_rock: self.rows[x].add(y) for the positions of the rock;
\* rows is a defaultdict
RECURSIVE AddPositions(_, _)
AddPositions(rows, positions) ==
    IF positions = {} THEN rows
    ELSE LET p == CHOOSE q \in positions : TRUE
         IN AddPositions(IF p[1] \in DOMAIN rows
                         THEN [rows EXCEPT ![p[1]] = rows[p[1]] \cup {p[2]}]
                         ELSE (p[1] :> {p[2]}) @@ rows,
                         positions \ {p})

\* Chamber.add_rock
AddRock(ch, position, shape) ==
    LET positions == RockPositions(shape, position[1], position[2])
    IN [ch EXCEPT
          !.rows = AddPositions(ch.rows, positions),
          !.height = SetMax({ch.height} \cup { p[1] + 1 : p \in positions }),
          !.nrocks = ch.nrocks + 1]

\* Simulation.__init__ on cycle_jets(jets)
NewSimulation(jets, chamber_width) ==
    [chamber |-> NewChamber(chamber_width), rocks |-> 0, jets |-> jets,
     jet_iterations |-> 0]

\* the jet that _next_jet returns
JetOf(sim) == sim.jets[(sim.jet_iterations % Len(sim.jets)) + 1]

\* apply_jet of _move_rock
ApplyJet(ch, shape, jet, x, y) ==
    LET dy == IF jet = "<" THEN 0 - 1 ELSE 1
        next_positions == RockPositions(shape, x, y + dy)
    IN IF \/ \E p \in next_positions : ChamberContains(ch, p)
          \/ \E p \in next_positions : p[2] \in {0 - 1, ch.width}
       THEN <<x, y>>
       ELSE <<x, y + dy>>

\* mutant of ApplyGravity: only the floor stops a falling rock
ApplyGravity_FloorOnly(ch, shape, x, y) ==
    LET dx == 0 - 1
        next_positions == RockPositions(shape, x + dx, y)
    IN IF \E p \in next_positions : p[1] = 0 - 1
       THEN <<x, y>>
       ELSE <<x + dx, y>>

\* apply_gravity of _move_rock
ApplyGravity(ch, shape, x, y) ==
    LET dx == 0 - 1
        next_positions == RockPositions(shape, x + dx, y)
    IN IF \/ \E p \in next_positions : ChamberContains(ch, p)
          \/ \E p \in next_positions : p[1] = 0 - 1
       THEN <<x, y>>
       ELSE <<x + dx, y>>

\* Simulation._move_rock
MoveRock(ch, shape, jet, cur) ==
    LET pushed == ApplyJet(ch, shape, jet, cur[1], cur[2])
    IN ApplyGravity(ch, shape, pushed[1], pushed[2])

\* the while loop of _next_rock with max_jets = math.inf, as run calls it: the
\* rock was at row x0 before its last move and is at xy now
RECURSIVE FallFrom(_, _, _, _)
FallFrom(sim, shape, x0, xy) ==
    IF xy[1] - x0 # 0
    THEN FallFrom([sim EXCEPT !.jet_iterations = sim.jet_iterations + 1],
                  shape, xy[1], MoveRock(sim.chamber, shape, JetOf(sim), xy))
    ELSE [sim EXCEPT !.chamber = AddRock(sim.chamber, xy, shape)]

\* Simulation._next_rock with max_jets = math.inf
NextRock(sim) ==
    LET rock == NextShape(sim.rocks)
        start == StartingPosition(sim.chamber)
        taken == [sim EXCEPT !.rocks = sim.rocks + 1,
                             !.jet_iterations = sim.jet_iterations + 1]
    IN FallFrom(taken, rock, start[1],
                MoveRock(sim.chamber, rock, JetOf(sim), start))

\* Simulation.run, the simulation it leaves behind: nrocks calls of _next_rock,
\* the first nrocks \div 2 of them before the others.  Every call takes a rock,
\* so the test on half is true; it makes TLC compute half before it goes on.
RECURSIVE Run(_, _)
Run(sim, nrocks) ==
    IF nrocks <= 0 THEN sim
    ELSE IF nrocks = 1 THEN NextRock(sim)
    ELSE LET half == Run(sim, nrocks \div 2)
         IN IF half.rocks > sim.rocks
            THEN Run(half, nrocks - (nrocks \div 2))
            ELSE half

\* cycle of search_cycle; rows is a defaultdict
Cycle(ch, cycle_length) ==
    LET lo == SetMax({ch.height - cycle_length, 0})
    IN [k \in 1..(ch.height - lo) |->
          IF lo + k - 1 \in DOMAIN ch.rows THEN ch.rows[lo + k - 1] ELSE {}]

\* the test of search_cycle on the three towers
Repeats(c1, c2, c3, cycle_length) ==
    /\ Cycle(c1, cycle_length) = Cycle(c2, cycle_length)
    /\ Cycle(c1, cycle_length) = Cycle(c3, cycle_length)
    /\ Cycle(c2, cycle_length) = Cycle(c3, cycle_length)
    /\ c3.height - c2.height = c2.height - c1.height

\* the two for loops of search_cycle from (offset, cycle_length) on
RECURSIVE SearchCycleFrom(_, _, _, _)
SearchCycleFrom(jets, width, offset, cycle_length) ==
    LET max_cycle_length == Len(jets) * 100
        max_offset == Len(jets) * 100
        c1 == Run(NewSimulation(jets, width), offset + cycle_length).chamber
        c2 == Run(NewSimulation(jets, width), offset + cycle_length * 2).chamber
        c3 == Run(NewSimulation(jets, width), offset + cycle_length * 3).chamber
    IN IF offset >= max_offset THEN "None"
       ELSE IF cycle_length >= max_cycle_length
            THEN SearchCycleFrom(jets, width, offset + 1, 5)
       ELSE IF Repeats(c1, c2, c3, cycle_length)
            THEN <<offset, cycle_length, c2.height - c1.height>>
       ELSE SearchCycleFrom(jets, width, offset, cycle_length + 5)

\* search_cycle
SearchCycle(jets, width) == SearchCycleFrom(jets, width, 0, 5)

\* part 2 of main: the height it prints for n rocks
Extrapolate(jets, width, pattern, n) ==
    LET offset == pattern[1]
        cycle_length == pattern[2]
        dheight == pattern[3]
        cycles == n \div cycle_length
        one_cycle_height ==
            Run(NewSimulation(jets, width),
                offset + cycle_length + (n - cycle_length * cycles)).chamber.height
    IN (cycles - 1) * dheight + one_cycle_height

-----------------------------------------------------------------------------
(* Day 18: Cube and CubeCollection.  A Point is a triple <<x, y, z>>, a Cube   *)
(* of lengths 1, 1, 1 is its origin, a Side the set of its four corner points, *)
(* and a CubeCollection the set of the origins of its cubes, which are         *)
(* distinct.                                                                  *)

\* Cube.sides of Cube(x, y, z), in the order of the tuple
CubeSides(origin) ==
    LET x == origin[1]
        y == origin[2]
        z == origin[3]
        dx == 1
        dy == 1
        dz == 1
    IN << { <<x, y, z>>, <<x, y + dy, z>>, <<x + dx, y, z>>, <<x + dx, y + dy, z>> },
          { <<x, y, z + dz>>, <<x, y + dy, z + dz>>, <<x + dx, y, z + dz>>,
            <<x + dx, y + dy, z + dz>> },
          { <<x, y, z>>, <<x, y, z + dz>>, <<x, y + dy, z>>, <<x, y + dy, z + dz>> },
          { <<x + dx, y, z>>, <<x + dx, y, z + dz>>, <<x + dx, y + dy, z>>,
            <<x + dx, y + dy, z + dz>> },
          { <<x, y, z>>, <<x, y, z + dz>>, <<x + dx, y, z>>, <<x + dx, y, z + dz>> },
          { <<x, y + dy, z>>, <<x, y + dy, z + dz>>, <<x + dx, y + dy, z>>,
            <<x + dx, y + dy, z + dz>> } >>

\* Cube.__contains__
CubeContains(origin, side) == \E k \in 1..6 : CubeSides(origin)[k] = side

\* CubeCollection.sides, as the set of the sides that occur
CollectionSides(cs) == UNION { { CubeSides(c)[k] : k \in 1..6 } : c \in cs }

\* CubeCollection.side_count: how often CubeCollection.sides yields side
SideCount(cs, side) == Cardinality({ c \in cs : CubeContains(c, side) })

\* CubeCollection.free_surface_area
FreeSurfaceArea(cs) ==
    Cardinality({ side \in CollectionSides(cs) : SideCount(cs, side) = 1 })

\* CubeCollection.axies
Axies(cs) ==
    LET points == UNION CollectionSides(cs)
    IN << { p[1] : p \in points }, { p[2] : p \in points }, { p[3] : p \in points } >>

\* mutant of Candidates: the cube below is never a candidate
Candidates_NoDown(origin) ==
    LET x == origin[1]
        y == origin[2]
        z == origin[3]
    IN << <<x + 1, y, z>>, <<x - 1, y, z>>, <<x, y + 1, z>>, <<x, y - 1, z>>,
          <<x, y, z + 1>>, <<x, y, z + 1>> >>

\* unvisited_neighbours of contour: the candidates, in the order of the tuple
Candidates(origin) ==
    LET x == origin[1]
        y == origin[2]
        z == origin[3]
    IN << <<x + 1, y, z>>, <<x - 1, y, z>>, <<x, y + 1, z>>, <<x, y - 1, z>>,
          <<x, y, z + 1>>, <<x, y, z - 1>> >>

\* the loop "for side in neighbour.sides" of contour from the k-th side on
RECURSIVE AppendSides(_, _, _, _)
AppendSides(contour, neighbour, cur, k) ==
    IF k > 6 THEN contour
    ELSE LET side == CubeSides(neighbour)[k]
         IN AppendSides(IF /\ CubeContains(cur, side)
                           /\ \A i \in 1..Len(contour) : contour[i] # side
                        THEN Append(contour, side)
                        ELSE contour,
                        neighbour, cur, k + 1)

\* the loop "for neighbour in unvisited_neighbours(current)" of contour from
\* the k-th candidate on; st is [record, contour]
RECURSIVE VisitNeighbours(_, _, _, _, _)
VisitNeighbours(cs, st, cur, current_distance, k) ==
    IF k > 6 THEN st
    ELSE LET neighbour == Candidates(cur)[k]
         IN IF ~(neighbour \in DOMAIN st.record /\ ~st.record[neighbour][2])
            THEN VisitNeighbours(cs, st, cur, current_distance, k + 1)
            ELSE IF neighbour \in cs
            THEN VisitNeighbours(cs,
                    [st EXCEPT !.contour = AppendSides(st.contour, neighbour, cur, 1)],
                    cur, current_distance, k + 1)
            ELSE VisitNeighbours(cs,
                    [st EXCEPT !.record[neighbour] = <<current_distance + 1, FALSE>>],
                    cur, current_distance, k + 1)

\* the first of the points ps in the order of the keys of record, which is the
\* order of itertools.product: x first, then y, then z
FirstPoint(ps) ==
    LET x == SetMin({ p[1] : p \in ps })
        y == SetMin({ p[2] : p \in { q \in ps : q[1] = x } })
        z == SetMin({ p[3] : p \in { q \in ps : q[1] = x /\ q[2] = y } })
    IN <<x, y, z>>

\* the next current of contour: the first key of record with the least finite
\* distance among the unvisited ones, None (<<>>) when there is none
NextCurrent(record) ==
    LET open == { p \in DOMAIN record : ~record[p][2] /\ record[p][1] # Inf }
        least == SetMin({ record[p][1] : p \in open })
    IN IF open = {} THEN <<>>
       ELSE FirstPoint({ p \in open : record[p][1] = least })

\* the while loop of contour
RECURSIVE ContourFrom(_, _, _)
ContourFrom(cs, st, cur) ==
    IF cur = <<>> THEN st.contour
    ELSE LET current_distance == st.record[cur][1]
             seen == VisitNeighbours(cs, st, cur, current_distance, 1)
             marked == [seen EXCEPT !.record[cur] = <<current_distance, TRUE>>]
         IN ContourFrom(cs, marked, NextCurrent(marked.record))

\* CubeCollection.contour raises ValueError for min() of an empty set
ContourRaises(cs) == IF cs = {} THEN ValueError ELSE "none"

\* CubeCollection.contour
Contour(cs) ==
    LET X == Axies(cs)[1]
        Y == Axies(cs)[2]
        Z == Axies(cs)[3]
        origin == <<SetMin(X) - 1, SetMin(Y) - 1, SetMin(Z) - 1>>
        enclosing_cubes == ((SetMin(X) - 1)..SetMax(X)) \X ((SetMin(Y) - 1)..SetMax(Y))
                              \X ((SetMin(Z) - 1)..SetMax(Z))
        record == [p \in enclosing_cubes |->
                     IF p = origin THEN <<0, FALSE>> ELSE <<Inf, FALSE>>]
    IN ContourFrom(cs, [record |-> record, contour |-> <<>>], origin)

\* CubeCollection.exterior_surface_area
ExteriorSurfaceArea(cs) == Len(Contour(cs))

-----------------------------------------------------------------------------
(* Inputs *)

\* g is Grid(grid, start, end) for a shape of shapes, a choice of at most
\* MaxRaised raised cells with heights 1..MaxHeight, and a start and an end
IsGridOf(g, shapes) ==
    \E sh \in shapes :
      \E up \in {u \in SUBSET ((0..(sh[1] - 1)) \X (0..(sh[2] - 1))) :
                   Cardinality(u) <= MaxRaised} :
        \E hs \in [up -> 1..MaxHeight] :
          \E s \in (0..(sh[1] - 1)) \X (0..(sh[2] - 1)) :
            \E e \in (0..(sh[1] - 1)) \X (0..(sh[2] - 1)) :
              g = [nrow |-> sh[1], ncol |-> sh[2],
                   grid |-> [p \in (0..(sh[1] - 1)) \X (0..(sh[2] - 1)) |->
                                IF p \in up THEN hs[p] ELSE 0],
                   start |-> s, end |-> e]

\* every sequence of at most n points of g
RECURSIVE PathsUpTo(_, _)
PathsUpTo(g, n) ==
    IF n = 0 THEN {<<>>}
    ELSE PathsUpTo(g, n - 1)
         \cup {Append(q, p) : q \in {r \in PathsUpTo(g, n - 1) : Len(r) = n - 1},
                              p \in PointSet(g)}

NoResult(g) == [grid |-> g, path |-> <<>>]

NoCall == [op |-> "none", args |-> <<>>]

\* no Grid has been built yet
NoGrid == [nrow |-> 0, ncol |-> 0, grid |-> <<>>, start |-> NoPoint, end |-> NoPoint]

\* shapes and letters of the puzzle texts that are parsed
TextShapes == {<<2, 2>>, <<1, 3>>, <<2, 3>>}
TextLetters == {"a", "b", "y", "z"}

\* t is a puzzle text of a shape of TextShapes over TextLetters with one S and
\* one E
IsText(t) ==
    \E sh \in TextShapes :
      \E s \in (0..(sh[1] - 1)) \X (0..(sh[2] - 1)) :
        \E e \in ((0..(sh[1] - 1)) \X (0..(sh[2] - 1))) \ {s} :
          \E f \in [((0..(sh[1] - 1)) \X (0..(sh[2] - 1))) \ {s, e} -> TextLetters] :
            t = [r \in 1..sh[1] |->
                    [c \in 1..sh[2] |->
                        IF <<r - 1, c - 1>> = s THEN "S"
                        ELSE IF <<r - 1, c - 1>> = e THEN "E"
                        ELSE f[<<r - 1, c - 1>>]]]

\* the driver has called nothing yet
InitDriver ==
    /\ pc = "main"
    /\ raised = "none"
    /\ call = NoCall
    /\ ret = NoPoint

\* no finder of day 12 has run yet
InitFinders ==
    /\ finder = "none"
    /\ path = <<>>
    /\ walked = <<>>
    /\ idx = 0
    /\ nodes = <<>>
    /\ current = NoPoint
    /\ result = NoResult(grid)
    /\ rawlen = 0
    /\ steps = 0

\* the program of day 15 is not running
NoBeacon ==
    /\ sensors = <<>>
    /\ x_range = <<>>
    /\ y_range = <<>>
    /\ tasks = <<>>
    /\ worker = <<>>
    /\ results = <<>>
    /\ consumed = 0

\* the program of day 14 is not running
NoCave ==
    /\ cave = <<>>
    /\ crd = <<>>

\* the program of day 13 is not running
NoPackets ==
    /\ pair = <<>>
    /\ verdicts = <<>>

\* no monkeys of day 11 have been made
NoMonkeys ==
    /\ monkeys = <<>>
    /\ thrown = <<>>
    /\ rounds = <<>>

\* no device of day 10 has been made
NoDevice ==
    /\ program = <<>>
    /\ device = <<>>

\* no rope of day 9 has been made
NoRope ==
    /\ knot = <<>>
    /\ knot_history = <<>>
    /\ ins = <<>>

\* no row search of day 15 is running
NoLine == line_point = <<>>

\* no simulation of day 17 has been made
NoChamber ==
    /\ simulation = <<>>
    /\ repetition_pattern = <<>>
    /\ total_rocks = 0
    /\ tower = 0

\* no cube collection of day 18 has been made
NoCubes ==
    /\ cubes = {}
    /\ areas = <<>>

\* the programs modelled after day 13 are not running, prog excepted
LaterIdle(prog) ==
    /\ IF prog = "line" THEN TRUE ELSE NoLine
    /\ IF prog = "rope" THEN TRUE ELSE NoRope
    /\ IF prog = "device" THEN TRUE ELSE NoDevice
    /\ IF prog = "monkeys" THEN TRUE ELSE NoMonkeys
    /\ IF prog = "chamber" THEN TRUE ELSE NoChamber
    /\ IF prog = "cubes" THEN TRUE ELSE NoCubes

InitRest ==
    /\ InitDriver
    /\ InitFinders
    /\ text = <<>>
    /\ NoBeacon
    /\ NoCave
    /\ NoPackets
    /\ LaterIdle("none")

Init ==
    /\ \/ IsGridOf(grid, SmallShapes)
       \/ grid = SampleGrid
    /\ InitRest

InitPath ==
    /\ IsGridOf(grid, PathShapes)
    /\ InitRest

\* the grids Grid.cardinals is called on: neither start nor end matter to it
InitCardinals ==
    /\ IsGridOf(grid, SmallShapes)
    /\ grid.start = <<0, 0>>
    /\ grid.end = <<0, 0>>
    /\ InitRest

\* the subsets of S with at most n elements
RECURSIVE SubsetsUpTo(_, _)
SubsetsUpTo(S, n) ==
    IF n = 0 THEN {{}}
    ELSE SubsetsUpTo(S, n - 1)
         \cup {c \cup {x} : c \in SubsetsUpTo(S, n - 1), x \in S}

\* day 15: where the sensors stand, where their beacons are from there, and
\* the ranges that are searched (x_min < x_max and y_min < y_max, as
\* distress_beacon_search asserts)
SensorLocations == (0..2) \X (0..3)
BeaconOffsets == {<<0, 0>>, <<0, 1>>, <<1, 0 - 1>>}
SearchRanges == {<< <<0, 2>>, <<0, 3>> >>, << <<1, 2>>, <<1, 3>> >>}

SensorChoices ==
    {[location |-> l, beacon |-> <<l[1] + o[1], l[2] + o[2]>>] :
        l \in SensorLocations, o \in BeaconOffsets}

\* Grid(sensors) of at most MaxSensors different sensors and the two ranges
InitBeacon ==
    /\ grid = NoGrid
    /\ InitDriver
    /\ InitFinders
    /\ text = <<>>
    /\ \E chosen \in SubsetsUpTo(SensorChoices, MaxSensors) :
          sensors = (CHOOSE f \in [1..Cardinality(chosen) -> chosen] : Range(f) = chosen)
    /\ \E r \in SearchRanges : x_range = r[1] /\ y_range = r[2]
    /\ tasks = <<>>
    /\ worker = <<>>
    /\ results = <<>>
    /\ consumed = 0
    /\ NoCave
    /\ NoPackets
    /\ LaterIdle("none")

\* day 14: the source and the rock paths a cave is built of; every path is
\* valid (consecutive edges share a row or a column)
CaveSource == <<2, 0>>
RockPathChoices ==
    { << <<1, 2>>, <<3, 2>> >>,
      << <<1, 1>>, <<1, 2>>, <<3, 2>>, <<3, 1>> >>,
      << <<2, 2>> >>,
      << <<3, 1>>, <<3, 3>> >>,
      << <<0, 3>>, <<4, 3>> >> }

\* cave = Cave(rock_paths=parse_input()) with at most MaxPaths paths
InitCave ==
    /\ grid = NoGrid
    /\ InitDriver
    /\ InitFinders
    /\ text = <<>>
    /\ NoBeacon
    /\ \E chosen \in SubsetsUpTo(RockPathChoices, MaxPaths) :
          cave = [source_coordinate |-> CaveSource,
                  rock_paths |-> (CHOOSE f \in [1..Cardinality(chosen) -> chosen] :
                                     Range(f) = chosen),
                  sand_coordinates |-> <<>>,
                  has_floor |-> FALSE,
                  padding |-> 1]
    /\ crd = None
    /\ NoPackets
    /\ LaterIdle("none")

\* day 11: the two runs that are compared, and the inputs: three monkeys, of
\* which none throws to itself
Runs == {"clock", "plain"}

OperationChoices ==
    << {[kind |-> "old * old", c |-> 0], [kind |-> "old *", c |-> 2],
        [kind |-> "old + old", c |-> 0], [kind |-> "old +", c |-> 3]},
       {[kind |-> "old + old", c |-> 0], [kind |-> "old +", c |-> 1]},
       {[kind |-> "old *", c |-> 2], [kind |-> "old +", c |-> 1]} >>

DivisorChoices == {2, 3}

ItemChoices ==
    << {<<w>> : w \in 1..MaxWorry} \cup {<<1, MaxWorry>>}, {<<>>, <<2>>}, {<<>>} >>

\* get_monkeys(worry_op) on an input with the given monkeys
GetMonkeys(worry_op, parsed) ==
    [k \in 1..Len(parsed) |->
        [items |-> parsed[k].items,
         operation |-> parsed[k].operation,
         worry_op |-> worry_op,
         inspection_count |-> 0,
         test |-> parsed[k].test,
         true_monkey |-> parsed[k].target[1],
         false_monkey |-> parsed[k].target[2]]]

\* get_divisors
GetDivisors(parsed) == [k \in 1..Len(parsed) |-> parsed[k].test]

\* monkeys = get_monkeys(lambda n: n % clock_size) for the run "clock", and
\* the same monkeys without worry reduction for the run "plain"
InitMonkeys ==
    /\ grid = NoGrid
    /\ InitDriver
    /\ InitFinders
    /\ text = <<>>
    /\ NoBeacon
    /\ NoCave
    /\ NoPackets
    /\ LaterIdle("monkeys")
    /\ \E i1 \in ItemChoices[1] : \E i2 \in ItemChoices[2] :
       \E o1 \in OperationChoices[1] : \E o2 \in OperationChoices[2] :
       \E o3 \in OperationChoices[3] :
       \E d1 \in DivisorChoices : \E d2 \in DivisorChoices : \E d3 \in DivisorChoices :
       \E t1 \in {<<1, 2>>, <<2, 1>>} : \E t2 \in {<<0, 2>>, <<2, 0>>} :
       \E t3 \in {<<0, 1>>, <<1, 0>>} :
          LET parsed ==
                << [items |-> i1, operation |-> o1, test |-> d1, target |-> t1],
                   [items |-> i2, operation |-> o2, test |-> d2, target |-> t2],
                   [items |-> <<>>, operation |-> o3, test |-> d3, target |-> t3] >>
          IN monkeys =
               [run \in Runs |->
                  IF run = "clock"
                  THEN GetMonkeys([kind |-> "n % clock_size",
                                   c |-> ClockSize(GetDivisors(parsed))], parsed)
                  ELSE GetMonkeys([kind |-> "n", c |-> 0], parsed)]
    /\ thrown = [run \in Runs |-> <<>>]
    /\ rounds = [run \in Runs |-> 0]

\* day 10: the arguments of addx, the cycles at which the signal strength is
\* recorded, and the number of noops a program starts with
AddxArgs == {0 - 2, 1, 3}
RecordAtChoices == {<<>>, <<2, 4>>, <<1, 3, 41>>}
PadLengths == {0, 38}

RECURSIVE ProgramsUpTo(_)
ProgramsUpTo(n) ==
    IF n = 0 THEN {<<>>}
    ELSE ProgramsUpTo(n - 1)
         \cup {Append(q, i) : q \in {r \in ProgramsUpTo(n - 1) : Len(r) = n - 1},
                              i \in {<<"noop", 0>>} \cup {<<"addx", a>> : a \in AddxArgs}}

\* device = Device(get_instructions(), record_at)
InitDevice ==
    /\ grid = NoGrid
    /\ InitDriver
    /\ InitFinders
    /\ text = <<>>
    /\ NoBeacon
    /\ NoCave
    /\ NoPackets
    /\ LaterIdle("device")
    /\ \E pad \in PadLengths : \E q \in ProgramsUpTo(MaxProgram) :
          program = [k \in 1..pad |-> <<"noop", 0>>] \o q
    /\ \E record_at \in RecordAtChoices :
          device = NewDevice(Reversed(program), record_at)

\* Rope(knots) at the default position (0, 0)
InitRope ==
    /\ grid = NoGrid
    /\ InitDriver
    /\ InitFinders
    /\ text = <<>>
    /\ NoBeacon
    /\ NoCave
    /\ NoPackets
    /\ LaterIdle("rope")
    /\ \E knots \in 1..MaxKnots :
          /\ knot = [k \in 1..knots |-> <<0, 0>>]
          /\ knot_history = [k \in 1..knots |-> << <<0, 0>> >>]
    /\ ins = <<>>

\* day 13: the packets that are compared: integers and lists of at most two
\* packets, nested two deep
ListsOver(S) == {<<>>} \cup {<<x>> : x \in S} \cup {<<x, y>> : x \in S, y \in S}

RECURSIVE PacketsOfDepth(_)
PacketsOfDepth(d) ==
    IF d = 0 THEN {IntP(n) : n \in 0..MaxInt}
    ELSE {IntP(n) : n \in 0..MaxInt}
         \cup {ListP(ps) : ps \in ListsOver(PacketsOfDepth(d - 1))}

\* a pair of packets, as parse_input reads it
InitPackets ==
    /\ grid = NoGrid
    /\ InitDriver
    /\ InitFinders
    /\ text = <<>>
    /\ NoBeacon
    /\ NoCave
    /\ \E a \in PacketsOfDepth(2) : \E b \in PacketsOfDepth(2) : pair = <<a, b>>
    /\ verdicts = <<>>
    /\ LaterIdle("none")

\* a puzzle input that is still to be parsed
InitPuzzle ==
    /\ grid = NoGrid
    /\ InitDriver
    /\ InitFinders
    /\ IsText(text)
    /\ NoBeacon
    /\ NoCave
    /\ NoPackets
    /\ LaterIdle("none")

\* the jet patterns of the explored inputs: the lines of "<" and ">" up to MaxJets long
JetPatterns == UNION { [1..n -> {"<", ">"}] : n \in 1..MaxJets }

\* simulation(path): a Simulation of the default width on the jets of the input
InitChamber ==
    /\ grid = NoGrid
    /\ InitDriver
    /\ InitFinders
    /\ text = <<>>
    /\ NoBeacon
    /\ NoCave
    /\ NoPackets
    /\ LaterIdle("chamber")
    /\ \E jets \in JetPatterns : simulation = NewSimulation(jets, CHAMBER_WIDTH)
    /\ repetition_pattern = <<>>
    /\ total_rocks = 0
    /\ tower = 0

\* day 18: a cell and its six neighbours
PlusCells == { <<1, 1, 1>> } \cup { Candidates(<<1, 1, 1>>)[k] : k \in 1..6 }

\* day 18: the cells of an edge of the box of CubeCells
EdgeCells == { <<x, 0, 0>> : x \in 0..MaxCoord }

\* day 18: the explored collections: any cubes of PlusCells, with at most one
\* cube of EdgeCells
CubeCollections ==
    { core \cup extra : core \in SUBSET PlusCells,
                        extra \in { {} } \cup { {c} : c \in EdgeCells } }

\* cc = parse_input(path)
InitCubes ==
    /\ grid = NoGrid
    /\ InitDriver
    /\ InitFinders
    /\ text = <<>>
    /\ NoBeacon
    /\ NoCave
    /\ NoPackets
    /\ LaterIdle("cubes")
    /\ cubes \in CubeCollections
    /\ areas = <<>>

-----------------------------------------------------------------------------
(* Seeker.search and Seeker.refine *)

\* run(Seeker(grid).search): the two appends before the loop
SeekerSearch ==
    /\ pc = "main"
    /\ finder' = "Seeker.search"
    /\ walked' = <<grid.start>>
    /\ path' = <<grid.start>>
    /\ pc' = "seek"
    /\ UNCHANGED <<grid, idx, nodes, current, result, raised, rawlen, steps>>
    /\ UNCHANGED outerVars

SeekLoopGuard == path # <<>> /\ Last(path) # grid.end

\* step is not None: advance
SeekerAdvance ==
    /\ pc = "seek"
    /\ SeekLoopGuard
    /\ GetStep(grid, walked, Last(path)) # NoPoint
    /\ path' = Append(path, GetStep(grid, walked, Last(path)))
    /\ walked' = Append(walked, GetStep(grid, walked, Last(path)))
    /\ steps' = steps + 1
    /\ UNCHANGED <<grid, pc, finder, idx, nodes, current, result, raised, rawlen>>
    /\ UNCHANGED outerVars

\* step is None: backtrack
SeekerBacktrack ==
    /\ pc = "seek"
    /\ SeekLoopGuard
    /\ GetStep(grid, walked, Last(path)) = NoPoint
    /\ path' = SubSeq(path, 1, Len(path) - 1)
    /\ steps' = steps + 1
    /\ UNCHANGED <<grid, pc, finder, walked, idx, nodes, current, result, raised, rawlen>>
    /\ UNCHANGED outerVars

\* the loop ends: return self.refine(), which starts with i = 0
SeekerCallRefine ==
    /\ pc = "seek"
    /\ ~SeekLoopGuard
    /\ pc' = "refine"
    /\ idx' = 0
    /\ rawlen' = Len(path)
    /\ steps' = 0
    /\ UNCHANGED <<grid, finder, path, walked, nodes, current, result, raised>>
    /\ UNCHANGED outerVars

RefineLoopGuard == path # <<>> /\ path[idx + 1] # grid.end

\* one iteration of the while loop of refine
RefineStep ==
    /\ pc = "refine"
    /\ RefineLoopGuard
    /\ path' = RefineBody(grid, path, idx)[1]
    /\ idx' = RefineBody(grid, path, idx)[2]
    /\ steps' = steps + 1
    /\ UNCHANGED <<grid, pc, finder, walked, nodes, current, result, raised, rawlen>>
    /\ UNCHANGED outerVars

\* return Path(self.grid, self.path)
RefineReturn ==
    /\ pc = "refine"
    /\ ~RefineLoopGuard
    /\ result' = [grid |-> grid, path |-> path]
    /\ pc' = "done"
    /\ UNCHANGED <<grid, finder, path, walked, idx, nodes, current, raised, rawlen, steps>>
    /\ UNCHANGED outerVars

-----------------------------------------------------------------------------
(* Dijkstra.search *)

\* run(Dijkstra(grid).search): the nodes are built, the start gets distance 0
DijkstraSearch ==
    /\ pc = "main"
    /\ finder' = "Dijkstra.search"
    /\ nodes' = InitNodes(grid, grid.start)
    /\ pc' = "search"
    /\ UNCHANGED <<grid, path, walked, idx, current, result, raised, rawlen, steps>>
    /\ UNCHANGED outerVars

\* the loop condition of search without the test for math.inf
SearchLoopGuard_NoInfTest == ~nodes[grid.end].visited

\* the condition of the while loop of search
SearchLoopGuard ==
    /\ ~nodes[grid.end].visited
    /\ nodes[ClosestPoint(nodes, UnvisitedPoints(grid, nodes))].distance # Inf

SearchVisit ==
    /\ pc = "search"
    /\ SearchLoopGuard
    /\ current' = ClosestPoint(nodes, UnvisitedPoints(grid, nodes))
    /\ nodes' = VisitBody(grid, nodes, current', FALSE)
    /\ steps' = steps + 1
    /\ UNCHANGED <<grid, pc, finder, path, walked, idx, result, raised, rawlen>>
    /\ UNCHANGED outerVars

\* return Path(self.grid, self._backtrack_path(current, reverse=True))
SearchReturn ==
    /\ pc = "search"
    /\ ~SearchLoopGuard
    /\ IF current = NoPoint
       THEN raised' = "UnboundLocalError" /\ UNCHANGED result
       ELSE /\ result' = [grid |-> grid, path |-> BacktrackPath(nodes, current, TRUE)]
            /\ UNCHANGED raised
    /\ pc' = "done"
    /\ UNCHANGED <<grid, finder, path, walked, idx, nodes, current, rawlen, steps>>
    /\ UNCHANGED outerVars

-----------------------------------------------------------------------------
(* Dijkstra.reverse_search *)

\* run(Dijkstra(grid).reverse_search): the end gets distance 0
DijkstraReverseSearch ==
    /\ pc = "main"
    /\ finder' = "Dijkstra.reverse_search"
    /\ nodes' = InitNodes(grid, grid.end)
    /\ pc' = "reverse"
    /\ UNCHANGED <<grid, path, walked, idx, current, result, raised, rawlen, steps>>
    /\ UNCHANGED outerVars

\* the loop condition calls _closest_point, which raises once no point is unvisited
ReverseRaise ==
    /\ pc = "reverse"
    /\ UnvisitedPoints(grid, nodes) = <<>>
    /\ raised' = DijkstraEmptyPointsError
    /\ pc' = "done"
    /\ UNCHANGED <<grid, finder, path, walked, idx, nodes, current, result, rawlen, steps>>
    /\ UNCHANGED outerVars

ReverseLoopGuard ==
    nodes[ClosestPoint(nodes, UnvisitedPoints(grid, nodes))].distance # Inf

ReverseVisit ==
    /\ pc = "reverse"
    /\ UnvisitedPoints(grid, nodes) # <<>>
    /\ ReverseLoopGuard
    /\ current' = ClosestPoint(nodes, UnvisitedPoints(grid, nodes))
    /\ nodes' = VisitBody(grid, nodes, current', TRUE)
    /\ steps' = steps + 1
    /\ UNCHANGED <<grid, pc, finder, path, walked, idx, result, raised, rawlen>>
    /\ UNCHANGED outerVars

\* start = the closest point of height 0; return Path(Grid(grid, start, end),
\* self._backtrack_path(start))
ReverseReturn ==
    /\ pc = "reverse"
    /\ UnvisitedPoints(grid, nodes) # <<>>
    /\ ~ReverseLoopGuard
    /\ IF ZeroPoints(grid) = <<>>
       THEN raised' = DijkstraEmptyPointsError /\ UNCHANGED result
       ELSE /\ result' =
                 [grid |-> [grid EXCEPT !.start = ClosestPoint(nodes, ZeroPoints(grid))],
                  path |-> BacktrackPath(nodes, ClosestPoint(nodes, ZeroPoints(grid)),
                                         FALSE)]
            /\ UNCHANGED raised
    /\ pc' = "done"
    /\ UNCHANGED <<grid, finder, path, walked, idx, nodes, current, rawlen, steps>>
    /\ UNCHANGED outerVars

-----------------------------------------------------------------------------
(* Path built from an arbitrary sequence of grid points *)

\* Path(grid, points)
NewPath ==
    /\ pc = "main"
    /\ finder' = "Path"
    /\ \E q \in PathsUpTo(grid, MaxPathLen) :
          /\ path' = q
          /\ result' = [grid |-> grid, path |-> q]
    /\ pc' = "done"
    /\ UNCHANGED <<grid, walked, idx, nodes, current, raised, rawlen, steps>>
    /\ UNCHANGED outerVars

-----------------------------------------------------------------------------
(* Grid methods called on their own *)

\* the points handed to the methods: the grid and one ring around it
Box(g) == ((0 - 1)..g.nrow) \X ((0 - 1)..g.ncol)

\* grid.height(p)
GridHeight ==
    /\ pc = "main"
    /\ \E p \in Box(grid) :
          /\ call' = [op |-> "Grid.height", args |-> <<p>>]
          /\ raised' = HeightRaises(grid, p)
          /\ ret' = IF HeightRaises(grid, p) = "none"
                    THEN Height(grid, p) ELSE NoPoint
    /\ pc' = "done"
    /\ UNCHANGED <<grid, finder, path, walked, idx, nodes, current, result,
                   rawlen, steps, text, restVars>>

\* grid.elevation(a, b)
GridElevation ==
    /\ pc = "main"
    /\ \E a \in Box(grid) : \E b \in Box(grid) :
          /\ call' = [op |-> "Grid.elevation", args |-> <<a, b>>]
          /\ raised' = ElevationRaises(grid, a, b)
          /\ ret' = IF ElevationRaises(grid, a, b) = "none"
                    THEN Elevation(grid, a, b) ELSE NoPoint
    /\ pc' = "done"
    /\ UNCHANGED <<grid, finder, path, walked, idx, nodes, current, result,
                   rawlen, steps, text, restVars>>

\* grid.cardinals(p)
GridCardinals ==
    /\ pc = "main"
    /\ \E p \in Box(grid) :
          /\ call' = [op |-> "Grid.cardinals", args |-> <<p>>]
          /\ ret' = Cardinals(grid, p)
    /\ pc' = "done"
    /\ UNCHANGED <<grid, finder, path, walked, idx, nodes, current, result,
                   raised, rawlen, steps, text, restVars>>

\* grid = Grid.from_puzzle(puzzle_input)
GridFromPuzzle ==
    /\ pc = "main"
    /\ text # <<>>
    /\ grid' = FromPuzzle(text)
    /\ pc' = "parsed"
    /\ UNCHANGED <<finder, path, walked, idx, nodes, current, result, raised,
                   rawlen, steps, call, ret, text, restVars>>

\* grid._char_grid(), as Grid.print calls it
GridCharGrid ==
    /\ pc = "parsed"
    /\ call' = [op |-> "Grid._char_grid", args |-> <<>>]
    /\ ret' = CharGrid(grid)
    /\ pc' = "done"
    /\ UNCHANGED <<grid, finder, path, walked, idx, nodes, current, result,
                   raised, rawlen, steps, text, restVars>>

-----------------------------------------------------------------------------
(* Day 15: Grid.distress_beacon_search *)

\* what the actions of day 15 leave alone
beaconOthers == <<grid, finderVars, text, caveVars, packetVars, laterVars>>

\* grid.distress_beacon_search(x_range, y_range): the pool is started and
\* imap_unordered queues the chunks of rows
BeaconSearch ==
    /\ pc = "main"
    /\ x_range # <<>>
    /\ call' = [op |-> "Grid.distress_beacon_search", args |-> <<x_range, y_range>>]
    /\ tasks' = GetTasks(RowsOf(y_range), ChunkSize)
    /\ worker' = [w \in 1..PoolSize |-> <<>>]
    /\ pc' = "pool"
    /\ UNCHANGED <<raised, ret, sensors, x_range, y_range, results, consumed>>
    /\ UNCHANGED beaconOthers

\* an idle worker takes the next chunk from the task queue
WorkerTake(w) ==
    /\ pc = "pool"
    /\ worker[w] = <<>>
    /\ tasks # <<>>
    /\ worker' = [worker EXCEPT ![w] = Head(tasks)]
    /\ tasks' = Tail(tasks)
    /\ UNCHANGED <<pc, raised, call, ret, sensors, x_range, y_range, results, consumed>>
    /\ UNCHANGED beaconOthers

\* a worker has run _line_search on every row of its chunk and delivers the
\* results; it reads its own copy of the Grid and writes nothing else
WorkerRun(w) ==
    /\ pc = "pool"
    /\ worker[w] # <<>>
    /\ results' = results \o MapChunk(sensors, x_range, worker[w])
    /\ worker' = [worker EXCEPT ![w] = <<>>]
    /\ UNCHANGED <<pc, raised, call, ret, sensors, x_range, y_range, tasks, consumed>>
    /\ UNCHANGED beaconOthers

\* for solution in pool.imap_unordered(...): the next delivered result; a
\* solution that is not None is returned and the pool is terminated
ForSolution ==
    /\ pc = "pool"
    /\ consumed < Len(results)
    /\ consumed' = consumed + 1
    /\ IF results[consumed + 1] # None
       THEN ret' = results[consumed + 1] /\ pc' = "done"
       ELSE UNCHANGED <<ret, pc>>
    /\ UNCHANGED <<raised, call, sensors, x_range, y_range, tasks, worker, results>>
    /\ UNCHANGED beaconOthers

\* the else of the for loop: every row result has been seen
ForElse ==
    /\ pc = "pool"
    /\ consumed = Len(RowsOf(y_range))
    /\ raised' = GridError
    /\ pc' = "done"
    /\ UNCHANGED <<call, ret, sensors, x_range, y_range, tasks, worker, results, consumed>>
    /\ UNCHANGED beaconOthers

-----------------------------------------------------------------------------
(* Day 14: the driver of regolith_reservoir.py and Cave.add_sand on its own *)

\* what the actions of day 14 leave alone
caveOthers == <<grid, finderVars, text, beaconVars, packetVars, laterVars>>

\* crd = cave.simulate(), in part 1 and in part 2
CaveSimulate ==
    /\ pc \in {"main", "sim1", "sim2"}
    /\ cave # <<>>
    /\ IF SimulateRaises(cave) # "none"
       THEN raised' = SimulateRaises(cave) /\ pc' = "done" /\ UNCHANGED crd
       ELSE /\ crd' = Simulate(cave)
            /\ pc' = IF pc = "sim2" THEN "test2" ELSE "test1"
            /\ UNCHANGED raised
    /\ UNCHANGED <<cave, call, ret>>
    /\ UNCHANGED caveOthers

\* part 1, while crd is not None: cave = cave.add_sand(*crd)
Part1AddSand ==
    /\ pc = "test1"
    /\ crd # None
    /\ IF AddSandRaises(cave, crd) # "none"
       THEN raised' = AddSandRaises(cave, crd) /\ pc' = "done" /\ UNCHANGED cave
       ELSE cave' = AddSand(cave, crd) /\ pc' = "sim1" /\ UNCHANGED raised
    /\ UNCHANGED <<crd, call, ret>>
    /\ UNCHANGED caveOthers

\* part 2: cave = cave.add_floor()
CaveAddFloor ==
    /\ pc = "test1"
    /\ crd = None
    /\ cave' = AddFloor(cave)
    /\ pc' = "sim2"
    /\ UNCHANGED <<crd, raised, call, ret>>
    /\ UNCHANGED caveOthers

\* part 2, while crd != cave.source_coordinate: cave = cave.add_sand(*crd)
Part2AddSand ==
    /\ pc = "test2"
    /\ crd # cave.source_coordinate
    /\ IF AddSandRaises(cave, crd) # "none"
       THEN raised' = AddSandRaises(cave, crd) /\ pc' = "done" /\ UNCHANGED cave
       ELSE cave' = AddSand(cave, crd) /\ pc' = "sim2" /\ UNCHANGED raised
    /\ UNCHANGED <<crd, call, ret>>
    /\ UNCHANGED caveOthers

\* after the loop of part 2: cave = cave.add_sand(*cave.source_coordinate)
Part2AddSource ==
    /\ pc = "test2"
    /\ crd = cave.source_coordinate
    /\ IF AddSandRaises(cave, cave.source_coordinate) # "none"
       THEN raised' = AddSandRaises(cave, cave.source_coordinate) /\ UNCHANGED cave
       ELSE cave' = AddSand(cave, cave.source_coordinate) /\ UNCHANGED raised
    /\ pc' = "done"
    /\ UNCHANGED <<crd, call, ret>>
    /\ UNCHANGED caveOthers

\* the positions add_sand is called with on its own
CaveBox == ((0 - 3)..7) \X ((0 - 1)..7)

\* cave.add_sand(x, y) on its own, on a cave the driver has built
CaveAddSandAt ==
    /\ pc \in {"main", "test1", "sim2", "test2"}
    /\ cave # <<>>
    /\ \E p \in CaveBox :
          /\ call' = [op |-> "Cave.add_sand", args |-> <<p>>]
          /\ raised' = AddSandRaises(cave, p)
          /\ ret' = IF AddSandRaises(cave, p) = "none" THEN AddSand(cave, p) ELSE None
    /\ pc' = "done"
    /\ UNCHANGED <<cave, crd>>
    /\ UNCHANGED caveOthers

-----------------------------------------------------------------------------
(* Day 15: Grid._line_search, one turn of its loop at a time *)

\* what the actions of the row search leave alone
lineOthers == <<grid, finderVars, text, beaconVars, caveVars, packetVars, ropeVars, deviceVars,
                monkeyVars, lastVars>>

\* self._line_search((x_min, x_max, y)) for a row y: point = (x_min, y)
LineSearchCall ==
    /\ pc = "main"
    /\ x_range # <<>>
    /\ \E y \in y_range[1]..y_range[2] :
          /\ call' = [op |-> "Grid._line_search", args |-> <<x_range[1], x_range[2], y>>]
          /\ line_point' = <<x_range[1], y>>
    /\ pc' = "line"
    /\ UNCHANGED <<raised, ret>>
    /\ UNCHANGED lineOthers

\* one turn of the while loop: the point is covered, it jumps to the farthest
\* crossing; past x_max the call returns None
LineSearchJump ==
    /\ pc = "line"
    /\ IsCovered(sensors, line_point[1], line_point[2])
    /\ line_point' = FarthestCrossing(sensors, line_point)
    /\ IF PastBound(call.args[2], line_point'[1])
       THEN ret' = None /\ pc' = "done"
       ELSE UNCHANGED <<ret, pc>>
    /\ UNCHANGED <<raised, call>>
    /\ UNCHANGED lineOthers

\* the point is not covered: return point
LineSearchReturn ==
    /\ pc = "line"
    /\ ~IsCovered(sensors, line_point[1], line_point[2])
    /\ ret' = line_point
    /\ pc' = "done"
    /\ UNCHANGED <<raised, call, line_point>>
    /\ UNCHANGED lineOthers

-----------------------------------------------------------------------------
(* Day 11: do_rounds, one round of one run at a time *)

\* what the actions of day 11 leave alone
monkeyOthers == <<earlierVars, ropeVars, deviceVars, lastVars, raised, call, ret, pc>>

\* one turn of for _ in range(n) of do_rounds(n, monkeys) in the run
DoRound(run) ==
    /\ pc = "main"
    /\ monkeys # <<>>
    /\ rounds[run] < MaxRounds
    /\ monkeys' = [monkeys EXCEPT ![run] = RoundFrom(@, <<>>, 0).monkeys]
    /\ thrown' = [thrown EXCEPT ![run] = @ \o RoundFrom(monkeys[run], <<>>, 0).thrown]
    /\ rounds' = [rounds EXCEPT ![run] = @ + 1]
    /\ UNCHANGED monkeyOthers

-----------------------------------------------------------------------------
(* Day 10: the driver loop *)

\* what the actions of day 10 leave alone
deviceOthers == <<earlierVars, ropeVars, monkeyVars, lastVars, raised, call, ret>>

\* while device.instructions_remaning: device.run_cycle()
DeviceRunCycle ==
    /\ pc = "main"
    /\ device # <<>>
    /\ InstructionsRemaning(device)
    /\ device' = RunCycle(device)
    /\ UNCHANGED <<pc, program>>
    /\ UNCHANGED deviceOthers

\* the loop stops
DeviceLoopExit ==
    /\ pc = "main"
    /\ device # <<>>
    /\ ~InstructionsRemaning(device)
    /\ pc' = "done"
    /\ UNCHANGED <<device, program>>
    /\ UNCHANGED deviceOthers

-----------------------------------------------------------------------------
(* Day 9: Rope.move *)

\* what the actions of day 9 leave alone
ropeOthers == <<earlierVars, deviceVars, monkeyVars, lastVars, raised, call, ret>>

\* for instruction in instructions: rope.move(instruction)
RopeMove ==
    /\ pc = "main"
    /\ knot # <<>>
    /\ \E direction \in Directions : \E count \in 0..MaxCount :
          /\ Len(knot_history[1]) - 1 + count <= MaxHeadSteps
          /\ ins' = <<direction, count>>
    /\ pc' = "move"
    /\ UNCHANGED <<knot, knot_history>>
    /\ UNCHANGED ropeOthers

\* one turn of for _ in range(ins[1]): move_head(ins[0]); ripple_movment()
RopeHeadStep ==
    /\ pc = "move"
    /\ ins[2] > 0
    /\ knot' = RippleMovement(MoveHead([knot |-> knot, knot_history |-> knot_history],
                                       ins[1])).knot
    /\ knot_history' =
          RippleMovement(MoveHead([knot |-> knot, knot_history |-> knot_history],
                                  ins[1])).knot_history
    /\ ins' = <<ins[1], ins[2] - 1>>
    /\ UNCHANGED pc
    /\ UNCHANGED ropeOthers

\* the for loop of move is over
RopeMoveReturn ==
    /\ pc = "move"
    /\ ins[2] = 0
    /\ pc' = "main"
    /\ ins' = <<>>
    /\ UNCHANGED <<knot, knot_history>>
    /\ UNCHANGED ropeOthers

-----------------------------------------------------------------------------
(* Day 17: Simulation.run one rock at a time, and part 2 of main *)

\* what the actions of the falling rocks leave alone
chamberOthers == <<earlierVars, ropeVars, deviceVars, monkeyVars, cubeVars, raised, call, ret>>

\* one turn of the loop of Simulation.run: self._next_rock()
RunNextRock ==
    /\ pc = "main"
    /\ simulation.chamber.nrocks < MaxRocks
    /\ simulation' = NextRock(simulation)
    /\ UNCHANGED <<pc, repetition_pattern, total_rocks, tower, chamberOthers>>

\* main: repetition_pattern = search_cycle(path)
MainSearchCycle ==
    /\ pc = "main"
    /\ simulation.rocks = 0
    /\ repetition_pattern' = SearchCycle(simulation.jets, CHAMBER_WIDTH)
    /\ pc' = "searched"
    /\ UNCHANGED <<simulation, total_rocks, tower, chamberOthers>>

\* main from "if repetition_pattern is None" on, for a number of rocks n in
\* the place of total_rocks
MainExtrapolate ==
    /\ pc = "searched"
    /\ \E n \in 1..MaxTotalRocks :
          /\ total_rocks' = n
          /\ tower' = IF repetition_pattern = "None"
                      THEN tower
                      ELSE Extrapolate(simulation.jets, CHAMBER_WIDTH,
                                       repetition_pattern, n)
    /\ pc' = "done"
    /\ UNCHANGED <<simulation, repetition_pattern, chamberOthers>>

-----------------------------------------------------------------------------
(* Day 18: main *)

\* what the action of the cubes leaves alone
cubeOthers == <<earlierVars, ropeVars, deviceVars, monkeyVars, chamberVars, call, ret>>

\* main: prints cc.free_surface_area(), then cc.exterior_surface_area()
MainAreas ==
    /\ pc = "main"
    /\ raised' = ContourRaises(cubes)
    /\ areas' = IF ContourRaises(cubes) = "none"
                THEN <<FreeSurfaceArea(cubes), ExteriorSurfaceArea(cubes)>>
                ELSE <<FreeSurfaceArea(cubes)>>
    /\ pc' = "done"
    /\ UNCHANGED <<cubes, cubeOthers>>

-----------------------------------------------------------------------------
(* Day 13: compare, the operators of PacketData and sorted *)

\* what the actions of day 13 leave alone
packetOthers == <<grid, finderVars, text, beaconVars, caveVars, laterVars>>

\* compare(a, b)
CompareAB ==
    /\ pc = "main"
    /\ pair # <<>>
    /\ call' = [op |-> "compare", args |-> pair]
    /\ verdicts' = <<Verdict(CompareRaises(pair[1], pair[2]), Compare(pair[1], pair[2]))>>
    /\ pc' = "compared"
    /\ UNCHANGED <<raised, ret, pair>>
    /\ UNCHANGED packetOthers

\* then compare(b, a)
CompareBA ==
    /\ pc = "compared"
    /\ verdicts' = Append(verdicts,
                          Verdict(CompareRaises(pair[2], pair[1]), Compare(pair[2], pair[1])))
    /\ pc' = "done"
    /\ UNCHANGED <<raised, call, ret, pair>>
    /\ UNCHANGED packetOthers

\* PacketData(a) < PacketData(b), PacketData(a) == PacketData(b) and
\* PacketData(b) < PacketData(a), each evaluated on its own
PacketOperators ==
    /\ pc = "main"
    /\ pair # <<>>
    /\ call' = [op |-> "PacketData", args |-> pair]
    /\ verdicts' = <<Verdict(PacketLtRaises(pair[1], pair[2]), PacketLt(pair[1], pair[2])),
                     Verdict("none", PacketEq(pair[1], pair[2])),
                     Verdict(PacketLtRaises(pair[2], pair[1]), PacketLt(pair[2], pair[1]))>>
    /\ pc' = "done"
    /\ UNCHANGED <<raised, ret, pair>>
    /\ UNCHANGED packetOthers

\* packet_data = sorted(list(map(PacketData, ...)) + dividers)
PacketSorted ==
    /\ pc = "main"
    /\ pair # <<>>
    /\ call' = [op |-> "sorted", args |-> pair \o Dividers]
    /\ raised' = SortedRaises(pair \o Dividers)
    /\ ret' = Sorted(pair \o Dividers)
    /\ pc' = "done"
    /\ UNCHANGED <<pair, verdicts>>
    /\ UNCHANGED packetOthers

-----------------------------------------------------------------------------
(* Specifications *)

NextSeeker ==
    \/ SeekerSearch
    \/ SeekerAdvance
    \/ SeekerBacktrack
    \/ SeekerCallRefine
    \/ RefineStep
    \/ RefineReturn

NextSearch ==
    \/ DijkstraSearch
    \/ SearchVisit
    \/ SearchReturn

NextReverse ==
    \/ DijkstraReverseSearch
    \/ ReverseRaise
    \/ ReverseVisit
    \/ ReverseReturn

\* run(Seeker(grid).search)
SpecSeeker == Init /\ [][NextSeeker]_vars

\* the interpreter keeps executing the running call
SpecSeekerFair == SpecSeeker /\ WF_vars(NextSeeker)

\* run(Dijkstra(grid).search)
SpecSearch == Init /\ [][NextSearch]_vars

\* run(Dijkstra(grid).reverse_search)
SpecReverse == Init /\ [][NextReverse]_vars

\* Path(grid, points) for arbitrary points of the grid
SpecPath == InitPath /\ [][NewPath]_vars

NextGrid ==
    \/ GridHeight
    \/ GridElevation

\* grid.cardinals on points inside and outside the grid
SpecCardinals == InitCardinals /\ [][GridCardinals]_vars

NextMonkeys ==
    \/ DoRound("clock")
    \/ DoRound("plain")

\* the rounds of the run with the clock and of the run without reduction
SpecMonkeys == InitMonkeys /\ [][NextMonkeys]_vars

NextDevice ==
    \/ DeviceRunCycle
    \/ DeviceLoopExit

\* the driver of day 10 on a program
SpecDevice == InitDevice /\ [][NextDevice]_vars

NextRope ==
    \/ RopeMove
    \/ RopeHeadStep
    \/ RopeMoveReturn

\* a rope moved by a sequence of instructions
SpecRope == InitRope /\ [][NextRope]_vars

NextLine ==
    \/ LineSearchCall
    \/ LineSearchJump
    \/ LineSearchReturn

\* Grid._line_search on every row of the searched ranges
SpecLine == InitBeacon /\ [][NextLine]_vars

NextPackets ==
    \/ CompareAB
    \/ CompareBA
    \/ PacketOperators
    \/ PacketSorted

\* compare, the PacketData operators and sorted on a pair of packets
SpecPackets == InitPackets /\ [][NextPackets]_vars

NextCave ==
    \/ CaveSimulate
    \/ Part1AddSand
    \/ CaveAddFloor
    \/ Part2AddSand
    \/ Part2AddSource
    \/ CaveAddSandAt

\* the driver of day 14, and add_sand called on any cave it builds
SpecCave == InitCave /\ [][NextCave]_vars

NextBeacon ==
    \/ BeaconSearch
    \/ \E w \in 1..PoolSize : WorkerTake(w)
    \/ \E w \in 1..PoolSize : WorkerRun(w)
    \/ ForSolution
    \/ ForElse

\* Grid(sensors).distress_beacon_search(x_range, y_range) of day 15
SpecBeacon == InitBeacon /\ [][NextBeacon]_vars

NextPuzzle ==
    \/ GridFromPuzzle
    \/ GridCharGrid

\* Grid.from_puzzle on a puzzle text, then the character grid of the result
SpecPuzzle == InitPuzzle /\ [][NextPuzzle]_vars

\* grid.height and grid.elevation on points inside and outside the grid
SpecGrid == InitPath /\ [][NextGrid]_vars

\* day 17: rocks fall one by one into the chamber of a simulation
SpecChamber == InitChamber /\ [][RunNextRock]_vars

NextCycle ==
    \/ MainSearchCycle
    \/ MainExtrapolate

\* day 17: part 2 of main
SpecCycle == InitChamber /\ [][NextCycle]_vars

\* day 18: main on a collection of cubes
SpecCubes == InitCubes /\ [][MainAreas]_vars

-----------------------------------------------------------------------------
(* Reference notions the claims are stated with *)

\* p and q are 4-neighbours
RefAdjacent(p, q) == Abs(p[1] - q[1]) + Abs(p[2] - q[2]) = 1

\* the move from u to the 4-neighbour v is admissible
RefEdge(g, u, v) == RefAdjacent(u, v) /\ g.grid[v] - g.grid[u] <= 1

\* breadth-first search: the least number of admissible moves from the
\* frontier (at depth d) to target, Inf when there is none
RECURSIVE RefDistFrom(_, _, _, _, _)
RefDistFrom(g, seen, frontier, d, target) ==
    IF target \in frontier THEN d
    ELSE IF frontier = {} THEN Inf
    ELSE LET nxt == {q \in PointSet(g) \ seen : \E p \in frontier : RefEdge(g, p, q)}
         IN RefDistFrom(g, seen \cup nxt, nxt, d + 1, target)

RefDist(g, from, to) == RefDistFrom(g, {from}, {from}, 0, to)

\* the height-0 cells of g from which the end is reachable
RefGoodStarts(g) ==
    {s \in PointSet(g) : g.grid[s] = 0 /\ RefDist(g, s, g.end) # Inf}

\* p is a sequence of points of g in which every consecutive pair is an
\* admissible move
RefWalk(g, p) == \A k \in 1..(Len(p) - 1) : RefEdge(g, p[k], p[k + 1])

NoDup(s) == \A k, m \in 1..Len(s) : s[k] = s[m] => k = m

Returned(f) == finder = f /\ pc = "done"

Called(op) == call.op = op /\ pc = "done"

\* the points of g that admissible moves lead to from the point from
RefReach(g, from) == {q \in PointSet(g) : RefDist(g, from, q) # Inf}

\* day 13: a and b are equal once an integer that meets a list is taken for
\* the list of that integer
RECURSIVE RefPromotedEqual(_, _)
RefPromotedEqual(a, b) ==
    IF a.t = "int" /\ b.t = "int" THEN a.v = b.v
    ELSE IF a.t = "int" THEN RefPromotedEqual([t |-> "list", v |-> <<a>>], b)
    ELSE IF b.t = "int" THEN RefPromotedEqual(a, [t |-> "list", v |-> <<b>>])
    ELSE /\ Len(a.v) = Len(b.v)
         /\ \A k \in 1..Len(a.v) : RefPromotedEqual(a.v[k], b.v[k])

\* day 14: the row of the floor of c, which exists when c has a floor and rock
RefHasFloorRow(c) == c.has_floor /\ RockCoordinates(c) # {}

RefFloorRow(c) == SetMax({q[2] : q \in RockCoordinates(c)}) + 2

\* p lies above the roof of c (the highest row that holds rock, sand or the
\* source) or below its floor
RefOutsideCave(c, p) ==
    \/ \A q \in Occupied(c) : p[2] < q[2]
    \/ RefHasFloorRow(c) /\ p[2] > RefFloorRow(c)

\* p holds rock: a coordinate of a rock path or of the floor row
RefHoldsRock(c, p) ==
    \/ \E k \in 1..Len(c.rock_paths) : p \in Coordinates(c.rock_paths[k])
    \/ RefHasFloorRow(c) /\ p[2] = RefFloorRow(c)

RefHoldsSand(c, p) == \E k \in 1..Len(c.sand_coordinates) : c.sand_coordinates[k] = p

\* day 14: a grain at p in the unfloored c keeps falling: it gets below the
\* lowest row that holds rock, sand or the source
RECURSIVE RefFallsBelow(_, _)
RefFallsBelow(c, p) ==
    LET free(q) == ~RefHoldsRock(c, q) /\ ~RefHoldsSand(c, q)
        below == <<p[1], p[2] + 1>>
        below_left == <<p[1] - 1, p[2] + 1>>
        below_right == <<p[1] + 1, p[2] + 1>>
    IN IF \A q \in Occupied(c) : q[2] < p[2] THEN TRUE
       ELSE IF free(below) THEN RefFallsBelow(c, below)
       ELSE IF free(below_left) THEN RefFallsBelow(c, below_left)
       ELSE IF free(below_right) THEN RefFallsBelow(c, below_right)
       ELSE FALSE

\* day 15: the coordinates of the searched rectangle that no sensor covers
RefUncovered ==
    {c \in (x_range[1]..x_range[2]) \X (y_range[1]..y_range[2]) :
        \A k \in 1..Len(sensors) :
            Abs(sensors[k].location[1] - c[1]) + Abs(sensors[k].location[2] - c[2])
              > Abs(sensors[k].location[1] - sensors[k].beacon[1])
                + Abs(sensors[k].location[2] - sensors[k].beacon[2])}

\* the offsets of the four neighbours of a point <<row, col>>
RefLeft == <<0, 0 - 1>>
RefRight == <<0, 1>>
RefUp == <<0 - 1, 0>>
RefDown == <<1, 0>>

\* s lists neighbours of p in the order that order gives to their offsets
RefInOrder(s, p, order) ==
    \A i, j \in 1..Len(s) :
        i < j => \E k, m \in 1..Len(order) :
                    /\ k < m
                    /\ order[k] = <<s[i][1] - p[1], s[i][2] - p[2]>>
                    /\ order[m] = <<s[j][1] - p[1], s[j][2] - p[2]>>

\* s holds exactly the 4-neighbours of p that lie in g, each once
RefNeighbours(g, s, p) ==
    /\ Range(s) = {q \in PointSet(g) : RefAdjacent(p, q)}
    /\ NoDup(s)
    /\ Len(s) <= 4
    /\ p \notin Range(s)
    /\ \A k \in 1..Len(s) : ~(s[k][1] < 0 \/ s[k][2] < 0 \/ s[k][1] >= g.nrow
                                \/ s[k][2] >= g.ncol)

\* the neighbours of p that a seeker at p may step to: in the grid, next to p,
\* not walked yet, and at most CLIMB_HEIGHT above p
RefStepChoices(g, wlk, p) ==
    {q \in PointSet(g) : /\ RefAdjacent(p, q)
                         /\ \A k \in 1..Len(wlk) : wlk[k] # q
                         /\ g.grid[q] - g.grid[p] <= 1}

\* (nrow/(nrow+ncol))*|row - end.row| + (ncol/(nrow+ncol))*|col - end.col|,
\* as the pair <<numerator, denominator>>
RefWeighted(g, q) ==
    <<g.nrow * (IF q[1] < g.end[1] THEN g.end[1] - q[1] ELSE q[1] - g.end[1])
        + g.ncol * (IF q[2] < g.end[2] THEN g.end[2] - q[2] ELSE q[2] - g.end[2]),
      g.nrow + g.ncol>>

\* the fraction a is smaller than the fraction b
RefLess(a, b) == a[1] * b[2] < b[1] * a[2]

\* the place of the neighbour q of p in the order of Grid.cardinals(p)
RefCardinalRank(p, q) ==
    CHOOSE k \in 1..4 :
        <<RefRight, RefUp, RefDown, RefLeft>>[k] = <<q[1] - p[1], q[2] - p[2]>>

\* p has a negative coordinate or one that is not below the dimension
RefOutside(g, p) == p[1] < 0 \/ p[2] < 0 \/ p[1] >= g.nrow \/ p[2] >= g.ncol

\* day 17: the cells of a chamber that hold rock
RefOccupied(ch) == UNION { { <<x, y>> : y \in ch.rows[x] } : x \in DOMAIN ch.rows }

\* day 17: the numbers of "#" in the drawings of the five shapes, in falling order
RefShapeCells == <<4, 5, 5, 4, 4>>

\* day 17: the number of cells of the first n rocks that fall
RECURSIVE RefCellsOfRocks(_)
RefCellsOfRocks(n) ==
    IF n = 0 THEN 0
    ELSE RefCellsOfRocks(n - 1) + RefShapeCells[((n - 1) % 5) + 1]

\* day 18: the six cells that share a face with the cell p
RefFaceNeighbours(p) ==
    { <<p[1] + d, p[2], p[3]>> : d \in {0 - 1, 1} }
       \cup { <<p[1], p[2] + d, p[3]>> : d \in {0 - 1, 1} }
       \cup { <<p[1], p[2], p[3] + d>> : d \in {0 - 1, 1} }

\* day 18: the cells of the bounding box of the cubes cs
RefBoundingBox(cs) ==
    (SetMin({ c[1] : c \in cs })..SetMax({ c[1] : c \in cs }))
       \X (SetMin({ c[2] : c \in cs })..SetMax({ c[2] : c \in cs }))
       \X (SetMin({ c[3] : c \in cs })..SetMax({ c[3] : c \in cs }))

\* day 18: the bounding box with the layer of cells around it
RefRegion(cs) ==
    ((SetMin({ c[1] : c \in cs }) - 1)..(SetMax({ c[1] : c \in cs }) + 1))
       \X ((SetMin({ c[2] : c \in cs }) - 1)..(SetMax({ c[2] : c \in cs }) + 1))
       \X ((SetMin({ c[3] : c \in cs }) - 1)..(SetMax({ c[3] : c \in cs }) + 1))

\* day 18: the empty cells of the region joined to reached through empty cells
RECURSIVE RefFlood(_, _, _)
RefFlood(cs, region, reached) ==
    LET more == { q \in (region \ cs) \ reached :
                    \E r \in RefFaceNeighbours(q) : r \in reached }
    IN IF more = {} THEN reached ELSE RefFlood(cs, region, reached \cup more)

\* day 18: the empty cells joined to the outside of the bounding box of cs
RefOutsideCells(cs) == RefFlood(cs, RefRegion(cs), RefRegion(cs) \ RefBoundingBox(cs))

\* day 18: the empty cells of the bounding box that cs encloses
RefEnclosed(cs) == (RefBoundingBox(cs) \ cs) \ RefOutsideCells(cs)

\* day 18: the unit faces between a cube of cs and a cell of the set cells
RefFaces(cs, cells) ==
    { f \in cs \X cells : f[2] \in RefFaceNeighbours(f[1]) }

-----------------------------------------------------------------------------
(* Claims *)

\* C1: on the sample grid Dijkstra.search returns a complete Path of length 31
C1_SampleSearch ==
    (grid = SampleGrid /\ Returned("Dijkstra.search")) =>
        /\ raised = "none"
        /\ PathComplete(result.grid, result.path)
        /\ PathLength(result.path) = 31

C1_Witness == grid = SampleGrid /\ Returned("Dijkstra.search") /\ raised = "none"

\* C2: on the sample grid Dijkstra.reverse_search returns a Path of length 29
\* that runs from a height-0 cell to the end E
C2_SampleReverseSearch ==
    (grid = SampleGrid /\ Returned("Dijkstra.reverse_search")) =>
        /\ raised = "none"
        /\ PathLength(result.path) = 29
        /\ PathValid(result.grid, result.path)
        /\ Height(grid, result.path[1]) = 0
        /\ Last(result.path) = grid.end

\* C3: when the end is reachable from the start, Dijkstra.search returns a
\* complete Path whose edge count is the breadth-first distance from start to end
C3_SearchShortest ==
    (Returned("Dijkstra.search") /\ RefDist(grid, grid.start, grid.end) # Inf) =>
        /\ raised = "none"
        /\ PathComplete(result.grid, result.path)
        /\ PathLength(result.path) = RefDist(grid, grid.start, grid.end)

\* the shortest path has to go around: it is longer than the Manhattan distance
C3_Witness ==
    /\ Returned("Dijkstra.search")
    /\ raised = "none"
    /\ RefDist(grid, grid.start, grid.end) # Inf
    /\ PathLength(result.path) >
         Abs(grid.start[1] - grid.end[1]) + Abs(grid.start[2] - grid.end[2])

\* C4: when the end is reachable from some height-0 cell, Dijkstra.reverse_search
\* returns a valid path from a height-0 cell to the end whose edge count is the
\* least forward distance to the end over all height-0 cells
C4_ReverseShortest ==
    (Returned("Dijkstra.reverse_search") /\ RefGoodStarts(grid) # {}) =>
        /\ raised = "none"
        /\ PathValid(result.grid, result.path)
        /\ Height(grid, result.path[1]) = 0
        /\ result.path[1] = result.grid.start
        /\ Last(result.path) = grid.end
        /\ \A s \in RefGoodStarts(grid) :
              PathLength(result.path) <= RefDist(grid, s, grid.end)

\* C5: the advance/backtrack loop of Seeker.search ends: no point is pushed
\* twice, every point of the path is a pushed one, and the number of
\* iterations is pushes plus pops, at most 2 * npoints - 1
C5_SeekTerminates ==
    (finder = "Seeker.search" /\ pc = "seek") =>
        /\ NoDup(walked)
        /\ Range(walked) \subseteq PointSet(grid)
        /\ Len(path) <= Len(walked)
        /\ steps = (Len(walked) - 1) + (Len(walked) - Len(path))
        /\ steps <= 2 * grid.nrow * grid.ncol - 1

\* under SpecSeekerFair the call returns
C5_SearchReturns == <>(pc = "done")

\* the loop has backtracked and advanced again
C5_Witness ==
    /\ finder = "Seeker.search"
    /\ pc = "seek"
    /\ Len(walked) > Len(path) + 1
    /\ Len(path) > 2
    /\ Last(path) = Last(walked)

\* C6: when a complete path exists, the Path Seeker.search returns is complete
C6_SeekerComplete ==
    (Returned("Seeker.search") /\ RefDist(grid, grid.start, grid.end) # Inf) =>
        /\ raised = "none"
        /\ PathComplete(result.grid, result.path)

\* the raw path was shortened by refine
C6_Witness ==
    /\ Returned("Seeker.search")
    /\ RefDist(grid, grid.start, grid.end) # Inf
    /\ 1 < Len(result.path)
    /\ Len(result.path) < rawlen

\* C7: refine run again on the path refine returned finds no loopback and
\* returns the same sequence of points: no point of the path has an admissible
\* move to a later point other than its successor
C7_RefineIdempotent ==
    Returned("Seeker.search") =>
        /\ Refine(grid, result.path) = result.path
        /\ \A k \in 1..(Len(result.path) - 1) :
              GetLoopback(grid, result.path, k) = NoPoint
        /\ \A k \in 1..Len(result.path) : \A m \in 1..(k - 2) :
              ~RefEdge(grid, result.path[m], result.path[k])

C7_Witness ==
    /\ Returned("Seeker.search")
    /\ Len(result.path) + 1 < rawlen
    /\ Len(result.path) > 3

\* C8: every splice of refine shortens the path and keeps its first and last
\* points, an iteration without a splice moves i one point on, i stays inside
\* the path, and the returned path is not longer than the raw path
C8_SpliceStep ==
    (pc = "refine" /\ pc' = "refine") =>
        \/ /\ Len(path') < Len(path)
           /\ path'[1] = path[1]
           /\ Last(path') = Last(path)
           /\ idx' < idx + 1
        \/ /\ path' = path
           /\ idx' = idx + 1
           /\ idx' < Len(path)

C8_RefineShortens ==
    /\ [][C8_SpliceStep]_vars
    /\ [](Returned("Seeker.search") => Len(result.path) <= rawlen)
    /\ [](pc = "refine" => steps <= 2 * rawlen)

C8_Witness ==
    /\ pc = "refine"
    /\ 1 < Len(path)
    /\ Len(path) < rawlen

\* C9: Path.valid is false for a path with a consecutive pair that is not a
\* pair of 4-neighbours or climbs more than 1, and true for a single point and
\* for a path all of whose consecutive pairs are 4-neighbours climbing at most 1
C9_PathValid ==
    Returned("Path") =>
        /\ PathValidRaises(grid, path) = "none"
        /\ (\E k \in 1..(Len(path) - 1) : ~RefEdge(grid, path[k], path[k + 1]))
              => ~PathValid(grid, path)
        /\ Len(path) = 1 => PathValid(grid, path)
        /\ (Len(path) >= 1 /\ RefWalk(grid, path)) => PathValid(grid, path)

\* neighbours all along, the first move admissible, the second too steep
C9_Witness ==
    /\ Returned("Path")
    /\ Len(path) = 3
    /\ RefEdge(grid, path[1], path[2])
    /\ RefAdjacent(path[2], path[3])
    /\ grid.grid[path[3]] - grid.grid[path[2]] > 1

\* C10: whenever Path.complete is true Path.valid is true, the empty path
\* included, and some valid path over the grid is not complete (looked for
\* once per grid, in the state whose path is the empty one)
C10_CompleteImpliesValid ==
    Returned("Path") =>
        /\ PathComplete(grid, path) => PathValid(grid, path)
        /\ path = <<>> => \E q \in PathsUpTo(grid, MaxPathLen) :
              /\ PathValid(grid, q)
              /\ PathCompleteRaises(grid, q) = "none"
              /\ ~PathComplete(grid, q)

C10_Witness ==
    /\ Returned("Path")
    /\ Len(path) > 1
    /\ PathComplete(grid, path)


\* C11: Grid.height(p) raises ValueError for every p with a negative coordinate
\* or one at or above the dimension, Grid.elevation(a, b) raises ValueError when
\* a or b is such a point, and for points of the grid elevation(a, b) is
\* height(b) - height(a)
C11_HeightElevation ==
    /\ Called("Grid.height") =>
          /\ RefOutside(grid, call.args[1]) => raised = ValueError
          /\ ~RefOutside(grid, call.args[1]) =>
                raised = "none" /\ ret = grid.grid[call.args[1]]
    /\ Called("Grid.elevation") =>
          /\ (RefOutside(grid, call.args[1]) \/ RefOutside(grid, call.args[2]))
                => raised = ValueError
          /\ (~RefOutside(grid, call.args[1]) /\ ~RefOutside(grid, call.args[2]))
                => /\ raised = "none"
                   /\ HeightRaises(grid, call.args[1]) = "none"
                   /\ HeightRaises(grid, call.args[2]) = "none"
                   /\ ret = Height(grid, call.args[2]) - Height(grid, call.args[1])
                   /\ ret = grid.grid[call.args[2]] - grid.grid[call.args[1]]

\* elevation from a point of the grid to a point one row below the grid
C11_Witness ==
    /\ Called("Grid.elevation")
    /\ raised = ValueError
    /\ ~RefOutside(grid, call.args[1])
    /\ call.args[2][1] = grid.nrow

\* C12: for a text over a..z with one S and one E, parsing it with CHAR_HEIGHT
\* and mapping the heights back with the inverse map of Grid._char_grid gives
\* the character of the text at every cell but the start and the end, which are
\* the cells of S and E and hold the S marker and the E marker
C12_RoundTrip ==
    Called("Grid._char_grid") =>
        /\ Len(ret) = Len(text)
        /\ \A r \in 1..Len(text) :
              /\ Len(ret[r]) = Len(text[r])
              /\ \A c \in 1..Len(text[r]) :
                    /\ text[r][c] = "S" <=> <<r - 1, c - 1>> = grid.start
                    /\ text[r][c] = "E" <=> <<r - 1, c - 1>> = grid.end
                    /\ text[r][c] = "S" => ret[r][c] = StartMarker
                    /\ text[r][c] = "E" => ret[r][c] = EndMarker
                    /\ text[r][c] \notin {"S", "E"} => ret[r][c] = text[r][c]

\* a text whose S stands next to an a and whose E stands next to a z
C12_Witness ==
    /\ Called("Grid._char_grid")
    /\ Len(text) = 2
    /\ text[1] = <<"S", "a", "y">>
    /\ text[2] = <<"b", "z", "E">>

\* C13 as claimed: Grid.cardinals(p) returns exactly the 4-neighbours of p that
\* lie in the grid (at most 4, never p, never a point outside), listed in the
\* order left, up, right, down
C13_CardinalsLeftUpRightDown ==
    Called("Grid.cardinals") =>
        /\ RefNeighbours(grid, ret, call.args[1])
        /\ RefInOrder(ret, call.args[1], <<RefLeft, RefUp, RefRight, RefDown>>)

\* C13 amended: Grid.cardinals(p) returns exactly the 4-neighbours of p that
\* lie in the grid (at most 4, never p, never a point outside), listed in the
\* order right, up, down, left
C13_Cardinals ==
    Called("Grid.cardinals") =>
        /\ RefNeighbours(grid, ret, call.args[1])
        /\ RefInOrder(ret, call.args[1], <<RefRight, RefUp, RefDown, RefLeft>>)

\* the middle point of a 3 x 3 grid: all four neighbours are returned
C13_Witness ==
    /\ Called("Grid.cardinals")
    /\ grid.nrow = 3 /\ grid.ncol = 3
    /\ call.args[1] = <<1, 1>>
    /\ Len(ret) = 4

\* C14: when the end is not reachable from the start, Dijkstra.search stops as
\* soon as the closest unvisited point has distance math.inf (it has visited
\* the points reachable from the start and no other, the end is unvisited),
\* raises nothing, and the Path it returns is not complete: it does not end at
\* the end of the grid
C14_SearchUnreachable ==
    (Returned("Dijkstra.search") /\ RefDist(grid, grid.start, grid.end) = Inf) =>
        /\ raised = "none"
        /\ ~nodes[grid.end].visited
        /\ nodes[ClosestPoint(nodes, UnvisitedPoints(grid, nodes))].distance = Inf
        /\ {p \in PointSet(grid) : nodes[p].visited} = RefReach(grid, grid.start)
        /\ steps = Cardinality(RefReach(grid, grid.start))
        /\ result.path # <<>>
        /\ Last(result.path) # grid.end
        /\ PathCompleteRaises(result.grid, result.path) = "none"
        /\ ~PathComplete(result.grid, result.path)

\* the end is walled off and the search has visited more than the start
C14_Witness ==
    /\ Returned("Dijkstra.search")
    /\ RefDist(grid, grid.start, grid.end) = Inf
    /\ raised = "none"
    /\ steps > 2
    /\ steps < grid.nrow * grid.ncol - 1
    /\ Len(result.path) > 1

\* C15: in every interleaving of the pool workers distress_beacon_search
\* returns a coordinate of the searched rectangle that no sensor covers whenever
\* there is one (the first delivered result that is not None, the results after
\* it are never looked at), raises GridError only when every row search
\* returned None, and returns the one uncovered coordinate when there is
\* exactly one
C15_BeaconSearch ==
    Called("Grid.distress_beacon_search") =>
        /\ RefUncovered # {} => raised = "none" /\ ret \in RefUncovered
        /\ raised = "none" =>
              /\ ret \in RefUncovered
              /\ ret = results[consumed]
              /\ \A k \in 1..(consumed - 1) : results[k] = None
        /\ raised # "none" =>
              /\ raised = GridError
              /\ RefUncovered = {}
              /\ \A k \in 1..Len(RowsOf(y_range)) :
                    LineSearch(sensors, <<x_range[1], x_range[2], RowsOf(y_range)[k]>>) = None
              /\ Len(results) = Len(RowsOf(y_range))
              /\ \A k \in 1..Len(results) : results[k] = None
        /\ Cardinality(RefUncovered) = 1 => RefUncovered = {ret}

\* the second chunk was delivered first: the search returns a coordinate of a
\* later row although an earlier row holds an uncovered coordinate too
C15_Witness ==
    /\ Called("Grid.distress_beacon_search")
    /\ raised = "none"
    /\ Len(sensors) = 2
    /\ \E c \in RefUncovered : c[2] < ret[2]
    /\ \E w \in 1..PoolSize : worker[w] # <<>>

\* C16: Cave.add_sand(x, y) raises CaveCannotAddSandError whenever the position
\* lies in the cave and holds rock (the floor row of a floored cave included) or
\* sand, and CaveOutOfBoundsError when it lies outside the cave; in both cases
\* the sand of the cave is unchanged; when it returns, the cave it was called
\* on is unchanged and the returned cave is that cave with one more grain, at
\* (x, y), a position that held neither rock nor sand
C16_AddSandStep ==
    (call.op = "none" /\ call'.op = "Cave.add_sand") =>
        LET p == call'.args[1] IN
        /\ (~RefOutsideCave(cave, p) /\ (RefHoldsRock(cave, p) \/ RefHoldsSand(cave, p)))
              => raised' = CaveCannotAddSandError
        /\ RefOutsideCave(cave, p) => raised' = CaveOutOfBoundsError
        /\ raised' # "none" => cave' = cave /\ ret' = None
        /\ raised' = "none" =>
              /\ cave' = cave
              /\ ret'.sand_coordinates = Append(cave.sand_coordinates, p)
              /\ ret' = [cave EXCEPT !.sand_coordinates = ret'.sand_coordinates]
              /\ ~RefHoldsRock(cave, p) /\ ~RefHoldsSand(cave, p)
              /\ ~RefOutsideCave(cave, p)

C16_AddSand == [][C16_AddSandStep]_vars

\* add_sand on a position of the floor row of a floored cave that holds sand
C16_Witness ==
    /\ Called("Cave.add_sand")
    /\ raised = CaveCannotAddSandError
    /\ cave.has_floor
    /\ cave.sand_coordinates # <<>>
    /\ call.args[1][2] = RefFloorRow(cave)

\* C17: for two packets a and b exactly one of three outcomes holds: compare(a, b)
\* is True and compare(b, a) is False; compare(a, b) is False and compare(b, a)
\* is True; or both raise InconclusiveComparisonError, and that is exactly when
\* a and b are equal after an integer is promoted to a one-element list
\* wherever it meets a list
C17_CompareOutcomes ==
    (Called("compare") /\ Len(verdicts) = 2) =>
        /\ \/ verdicts = <<"True", "False">>
           \/ verdicts = <<"False", "True">>
           \/ verdicts = <<InconclusiveComparisonError, InconclusiveComparisonError>>
        /\ verdicts[1] = InconclusiveComparisonError
              <=> RefPromotedEqual(pair[1], pair[2])

\* [[0], 1] against [0, [1]]: an integer meets a list in both directions and
\* both comparisons are inconclusive
C17_Witness ==
    /\ Called("compare")
    /\ Len(verdicts) = 2
    /\ pair[1] = ListP(<<ListP(<<IntP(0)>>), IntP(1)>>)
    /\ pair[2] = ListP(<<IntP(0), ListP(<<IntP(1)>>)>>)
    /\ verdicts[1] = InconclusiveComparisonError

\* C18: for two PacketData a and b each of a < b, a == b and b < a evaluates to
\* a boolean without raising, exactly one of the three is true, and sorting a
\* list of packets, duplicates included, succeeds
C18_TotalOrdering ==
    /\ Called("PacketData") =>
          /\ \A k \in 1..3 : verdicts[k] \in {"True", "False"}
          /\ Cardinality({k \in 1..3 : verdicts[k] = "True"}) = 1
    /\ Called("sorted") =>
          /\ raised = "none"
          /\ Len(ret) = Len(call.args)

\* the step is a call of cave.simulate()
RefSimulateStep == pc \in {"main", "sim1", "sim2"} /\ call' = call

\* C19: in a cave with a floor simulate always returns a coordinate, never None
\* and never an exception; in a cave without a floor simulate returns None
\* exactly when the grain falls below the lowest occupied row
C19_SimulateStep ==
    RefSimulateStep =>
        /\ cave.has_floor => raised' = "none" /\ pc' # "done" /\ crd' # None
        /\ ~cave.has_floor =>
              /\ raised' = "none"
              /\ pc' # "done"
              /\ crd' = None <=> RefFallsBelow(cave, cave.source_coordinate)

C19_Simulate == [][C19_SimulateStep]_vars

\* the part of C19 about caves without a floor
C19_UnflooredStep == (RefSimulateStep /\ ~cave.has_floor) => C19_SimulateStep

C19_Unfloored == [][C19_UnflooredStep]_vars

\* the part of C19 about caves whose floor has rock above it
C19_FlooredRockStep ==
    (RefSimulateStep /\ RefHasFloorRow(cave)) =>
        /\ C19_SimulateStep
        /\ crd' \notin {q \in CaveBox : RefHoldsRock(cave, q) \/ RefHoldsSand(cave, q)}

C19_FlooredRock == [][C19_FlooredRockStep]_vars

\* the step is one turn of the loop of Seeker.search, which calls get_step on
\* the last point of the path
RefGetStepStep == pc = "seek" /\ pc' = "seek" /\ SeekLoopGuard

\* C20: get_step considers exactly the cardinal neighbours of the path's last
\* point that are not in walked and whose elevation from that point is at most
\* 1; it returns the one with the smallest weighted distance to the end, the
\* first such in cardinals order on a tie, and that step is appended to both
\* path and walked; it returns None when there is no candidate (the seeker
\* then backtracks)
C20_GetStepStep ==
    RefGetStepStep =>
        LET p == path[Len(path)]
            choices == RefStepChoices(grid, walked, p)
        IN IF choices = {}
           THEN /\ path' = SubSeq(path, 1, Len(path) - 1)
                /\ walked' = walked
           ELSE \E q \in choices :
                   /\ path' = Append(path, q)
                   /\ walked' = Append(walked, q)
                   /\ \A r \in choices :
                         /\ ~RefLess(RefWeighted(grid, r), RefWeighted(grid, q))
                         /\ (r # q /\ ~RefLess(RefWeighted(grid, q), RefWeighted(grid, r)))
                               => RefCardinalRank(p, q) < RefCardinalRank(p, r)

C20_GetStep == [][C20_GetStepStep]_vars

\* the seeker has advanced from the point before the last of the path, where
\* upwards and downwards were both open and equally far from the end, and it
\* went up
C20_Witness ==
    /\ pc = "seek"
    /\ Len(path) >= 2
    /\ Last(walked) = Last(path)
    /\ LET p == path[Len(path) - 1]
           before == SubSeq(walked, 1, Len(walked) - 1)
       IN /\ Last(path) = <<p[1] - 1, p[2]>>
          /\ <<p[1] + 1, p[2]>> \in RefStepChoices(grid, before, p)
          /\ RefWeighted(grid, <<p[1] + 1, p[2]>>) = RefWeighted(grid, Last(path))

\* C21: when no complete path exists, Seeker.search returns the empty Path
\* without raising, and that Path reports the failure as values: valid and
\* complete both evaluate to False without raising
C21_SearchFails ==
    (Returned("Seeker.search") /\ RefDist(grid, grid.start, grid.end) = Inf) =>
        /\ raised = "none"
        /\ result.path = <<>>
        /\ PathValidRaises(result.grid, result.path) = "none"
        /\ ~PathValid(result.grid, result.path)
        /\ PathCompleteRaises(result.grid, result.path) = "none"
        /\ ~PathComplete(result.grid, result.path)

\* the part of C21 that does not read Path.complete
C21_SearchFailsValid ==
    (Returned("Seeker.search") /\ RefDist(grid, grid.start, grid.end) = Inf) =>
        /\ raised = "none"
        /\ result.path = <<>>
        /\ path = <<>>
        /\ PathValidRaises(result.grid, result.path) = "none"
        /\ ~PathValid(result.grid, result.path)

\* the step ends in a state of the advance/backtrack loop of Seeker.search
RefSeekState == finder' = "Seeker.search" /\ pc' = "seek"

\* C22: in every state of the advance/backtrack loop, entered with
\* path = [start] and walked = [start]: a non-empty path begins at the grid's
\* start, each consecutive pair of it is 4-adjacent and climbs at most 1, no
\* point is on it twice, every point of it is in walked, and walked never
\* loses a point
C22_SeekLoopStep ==
    RefSeekState =>
        /\ pc = "main" => path' = <<grid.start>> /\ walked' = <<grid.start>>
        /\ path' # <<>> =>
              /\ path'[1] = grid.start
              /\ RefWalk(grid, path')
              /\ PathValid(grid, path')
              /\ \A i, j \in 1..Len(path') : path'[i] = path'[j] => i = j
        /\ \A k \in 1..Len(path') : \E m \in 1..Len(walked') : walked'[m] = path'[k]
        /\ pc = "seek" =>
              \A m \in 1..Len(walked) : \E n \in 1..Len(walked') : walked'[n] = walked[m]

C22_SeekLoop == [][C22_SeekLoopStep]_vars

\* the seeker has climbed, has backtracked from a dead end and has advanced
\* again
C22_Witness ==
    /\ finder = "Seeker.search"
    /\ pc = "seek"
    /\ Len(path) >= 3
    /\ Len(walked) > Len(path)
    /\ Last(walked) = Last(path)
    /\ \E k \in 1..(Len(path) - 1) : grid.grid[path[k + 1]] = grid.grid[path[k]] + 1

\* the column just right of the zone of the sensor s on row y
RefRightOfZone(s, y) ==
    s.location[1]
      + (Abs(s.location[1] - s.beacon[1]) + Abs(s.location[2] - s.beacon[2]))
      - Abs(y - s.location[2]) + 1

\* the sensors that cover <<x, y>>
RefCovering(x, y) ==
    {k \in 1..Len(sensors) :
        Abs(sensors[k].location[1] - x) + Abs(sensors[k].location[2] - y)
          <= Abs(sensors[k].location[1] - sensors[k].beacon[1])
             + Abs(sensors[k].location[2] - sensors[k].beacon[2])}

\* C23, the jumps: each jump of _line_search moves to the first column to the
\* right of the zone of the covering sensor that reaches furthest right, so x
\* strictly increases, stays within x_max while the loop runs, and every column
\* jumped over is covered
C23_JumpStep ==
    (pc = "line" /\ line_point' # line_point) =>
        /\ RefCovering(line_point[1], line_point[2]) # {}
        /\ line_point'[2] = line_point[2]
        /\ \E k \in RefCovering(line_point[1], line_point[2]) :
              /\ line_point'[1] = RefRightOfZone(sensors[k], line_point[2])
              /\ \A m \in RefCovering(line_point[1], line_point[2]) :
                    RefRightOfZone(sensors[m], line_point[2]) <= line_point'[1]
        /\ line_point'[1] > line_point[1]
        /\ \A x \in line_point[1]..(line_point'[1] - 1) :
              RefCovering(x, line_point[2]) # {}
        /\ pc' = "line" => line_point'[1] <= call.args[2]

\* C23, the result: _line_search((x_min, x_max, y)) returns the leftmost point
\* (x, y) with x_min <= x <= x_max that no sensor covers, or None when every
\* such point of row y is covered
C23_LineSearchStep ==
    /\ C23_JumpStep
    /\ (pc = "line" /\ pc' = "done") =>
          LET x_min == call.args[1]
              x_max == call.args[2]
              y == call.args[3]
              free == {x \in x_min..x_max : RefCovering(x, y) = {}}
          IN /\ raised' = "none"
             /\ free = {} => ret' = None
             /\ free # {} => /\ ret' # None
                             /\ ret'[2] = y
                             /\ ret'[1] \in free
                             /\ \A x \in free : ret'[1] <= x

C23_LineSearch == [][C23_LineSearchStep]_vars

\* two sensors cover the first point of the row, the loop has jumped past the
\* zone of the one that reaches further, and the point it stands at is free
C23_Witness ==
    /\ pc = "done"
    /\ call.op = "Grid._line_search"
    /\ ret # None
    /\ ret[1] > call.args[1] + 1
    /\ Cardinality(RefCovering(call.args[1], call.args[3])) = 2
    /\ \E k, m \in RefCovering(call.args[1], call.args[3]) :
          RefRightOfZone(sensors[k], call.args[3]) < RefRightOfZone(sensors[m], call.args[3])

\* the sign of x
RefSign(x) == CASE x > 0 -> 1 [] x = 0 -> 0 [] x < 0 -> 0 - 1

\* the positions a and b touch: they differ by at most 1 on both axes
RefTouch(a, b) ==
    /\ a[1] - b[1] \in {0 - 1, 0, 1}
    /\ a[2] - b[2] \in {0 - 1, 0, 1}

\* the step is one head step of Rope.move: the head moves, then the ripple
RefHeadStep == pc = "move" /\ pc' = "move" /\ ins' # ins

\* C24: after every single head step each knot after the head is adjacent to
\* the knot before it, and in that step it has moved by one unit towards its
\* leader on each axis where they differ (the sign of its offset from the
\* leader), or has not moved at all if it was already adjacent to the leader
C24_HeadStep ==
    RefHeadStep =>
        /\ Len(knot') = Len(knot)
        /\ \A i \in 2..Len(knot) :
              /\ RefTouch(knot'[i], knot'[i - 1])
              /\ knot'[i][1] - knot[i][1] \in {0 - 1, 0, 1}
              /\ knot'[i][2] - knot[i][2] \in {0 - 1, 0, 1}
              /\ IF RefTouch(knot[i], knot'[i - 1])
                 THEN knot'[i] = knot[i]
                 ELSE /\ knot'[i][1] = knot[i][1] + RefSign(knot'[i - 1][1] - knot[i][1])
                      /\ knot'[i][2] = knot[i][2] + RefSign(knot'[i - 1][2] - knot[i][2])

C24_Rope == [][C24_HeadStep]_vars

\* the third knot has just followed a knot that had moved away diagonally to
\* an offset of two on both axes, and has itself moved diagonally
C24_Witness ==
    /\ pc = "move"
    /\ Len(knot) = 3
    /\ Len(knot_history[3]) >= 2
    /\ knot_history[3][Len(knot_history[3])] = knot[3]
    /\ LET before == knot_history[3][Len(knot_history[3]) - 1]
       IN /\ Abs(knot[2][1] - before[1]) = 2
          /\ Abs(knot[2][2] - before[2]) = 2
          /\ Abs(knot[3][1] - before[1]) = 1
          /\ Abs(knot[3][2] - before[2]) = 1
          /\ knot_history[2][Len(knot_history[2])] = knot[2]
          /\ knot_history[1][Len(knot_history[1])] = knot[1]
          /\ Len(knot_history[1]) = MaxHeadSteps + 1

\* the number of cycles the instruction i takes
RefCycles(i) == IF i[1] = "noop" THEN 1 ELSE 2

\* the cycles in which the instructions of prg from the k-th on are over,
\* the one before the k-th being over in cycle t
RECURSIVE RefOverFrom(_, _, _)
RefOverFrom(prg, k, t) ==
    IF k > Len(prg) THEN {}
    ELSE {t + RefCycles(prg[k])} \cup RefOverFrom(prg, k + 1, t + RefCycles(prg[k]))

\* the cycle in which the whole of prg is over
RECURSIVE RefLength(_, _)
RefLength(prg, k) == IF k > Len(prg) THEN 0 ELSE RefCycles(prg[k]) + RefLength(prg, k + 1)

\* the sum of the arguments of the addx instructions of prg from the k-th on
\* that are over before cycle c, the one before the k-th being over in cycle t
RECURSIVE RefAdded(_, _, _, _)
RefAdded(prg, k, t, c) ==
    IF k > Len(prg) THEN 0
    ELSE (IF prg[k][1] = "addx" /\ t + RefCycles(prg[k]) < c THEN prg[k][2] ELSE 0)
         + RefAdded(prg, k + 1, t + RefCycles(prg[k]), c)

\* the value X has during cycle c
RefXDuring(c) == 1 + RefAdded(program, 1, 0, c)

\* C25: a noop occupies one cycle and an addx two, and X changes only after
\* the second cycle of an addx: in cycle c, X is 1 plus the arguments of the
\* addx instructions over before c, the signal strength recorded for a cycle c of
\* record_at is c times that X, and the pixel drawn is '#' exactly when
\* column (c - 1) mod 40 is within one of that X
C25_RunCycleStep ==
    (device # <<>> /\ device' # device) =>
        LET c == device'.cycle
            col == (c - 1) % 40
            row == ((c - 1) \div 40) % 6
            x == RefXDuring(c)
        IN /\ c = device.cycle + 1
           /\ device.X = x
           /\ device'.X = RefXDuring(c + 1)
           /\ (device'.executing_instruction = None)
                 <=> c \in RefOverFrom(program, 1, 0)
           /\ device'.signal_strengths =
                 IF c \in {device.record_at[k] : k \in 1..Len(device.record_at)}
                 THEN Append(device.signal_strengths, <<c, c * x>>)
                 ELSE device.signal_strengths
           /\ device'.pixels[<<row, col>>] = "#" <=> (col - x \in {0 - 1, 0, 1})
           /\ device'.pixels[<<row, col>>] \in {"#", "."}
           /\ device'.pixels =
                 [device.pixels EXCEPT ![<<row, col>>] = device'.pixels[<<row, col>>]]
           /\ device'.record_at = device.record_at

C25_RunCycle == [][C25_RunCycleStep]_vars

\* cycle 41, the first of the second row, has been recorded and drawn dark
\* after an addx had moved X away from column 0
C25_Witness ==
    /\ device # <<>>
    /\ device.cycle = 41
    /\ device.X # 1
    /\ device.executing_instruction # None
    /\ device.pixels[<<1, 0>>] = "."
    /\ device.pixels[<<0, 0>>] = "#"
    /\ device.signal_strengths # <<>>
    /\ Last(device.signal_strengths)[1] = 41

\* C26: when the driver loop stops, every instruction of the program has run
\* to completion: executing_instruction is None, X is 1 plus the sum of all
\* addx arguments, and cycle is the number of noops plus twice the number of
\* addx instructions
C26_LoopExit ==
    (device # <<>> /\ pc = "done") =>
        /\ device.executing_instruction = None
        /\ device.X = RefXDuring(RefLength(program, 1) + 1)
        /\ device.cycle = RefLength(program, 1)

\* the part of C26 that holds: the loop stops with the last instruction
\* started, and complete unless that instruction is an addx
C26_LoopExitLastStarted ==
    (device # <<>> /\ pc = "done") =>
        /\ device.instruction_queue = <<>>
        /\ (program # <<>> /\ Last(program)[1] = "noop") => C26_LoopExit
        /\ (program # <<>> /\ Last(program)[1] = "addx") =>
              /\ device.executing_instruction # None
              /\ device.cycle = RefLength(program, 1) - 1
              /\ device.X = RefXDuring(RefLength(program, 1))

\* C27: after the same number of rounds, the run with the worry operation
\* n mod M (M the product of all test divisors) has made the same throws, at
\* every inspection to the same target, and has the same inspection_count for
\* every monkey as the run with no worry reduction, and the worry levels of
\* the two runs are congruent modulo every divisor
C27_ClockRefinesPlain ==
    (monkeys # <<>> /\ rounds["clock"] = rounds["plain"]) =>
        /\ thrown["clock"] = thrown["plain"]
        /\ \A k \in 1..Len(monkeys["plain"]) :
              /\ monkeys["clock"][k].inspection_count = monkeys["plain"][k].inspection_count
              /\ Len(monkeys["clock"][k].items) = Len(monkeys["plain"][k].items)
              /\ \A j \in 1..Len(monkeys["plain"][k].items) :
                    \A m \in 1..Len(monkeys["plain"]) :
                        monkeys["clock"][k].items[j] % monkeys["plain"][m].test
                          = monkeys["plain"][k].items[j] % monkeys["plain"][m].test

\* both runs have done all rounds, the worry levels of the plain run have
\* outgrown the clock, and some monkey has thrown to both of its targets
C27_Witness ==
    /\ monkeys # <<>>
    /\ rounds["clock"] = MaxRounds
    /\ rounds["plain"] = MaxRounds
    /\ \E k \in 1..Len(monkeys["plain"]) : \E j \in 1..Len(monkeys["plain"][k].items) :
          monkeys["plain"][k].items[j] > 36 /\ monkeys["clock"][k].items[j] < 36
    /\ \E a, b \in 1..Len(thrown["clock"]) :
          thrown["clock"][a][1] = thrown["clock"][b][1]
            /\ thrown["clock"][a][2] # thrown["clock"][b][2]

\* C28 (state part): the occupied cells of the chamber lie in columns
\* 0..width-1 and rows >= 0, they are as many as the cells of the rocks added
\* (no rock rests on an occupied cell), and height is one plus the highest
\* occupied row
C28_Cells ==
    LET ch == simulation.chamber
        occupied == RefOccupied(ch)
    IN /\ \A p \in occupied : p[1] >= 0 /\ p[2] \in 0..(ch.width - 1)
       /\ Cardinality(occupied) = RefCellsOfRocks(ch.nrocks)
       /\ ch.height = IF occupied = {} THEN 0
                      ELSE 1 + SetMax({ p[1] : p \in occupied })

\* C28 (step part): height does not decrease from one rock to the next
C28_Grows == simulation'.chamber.height >= simulation.chamber.height

\* C28: after any number of rocks dropped by Simulation into a chamber of
\* width 7 with any jet pattern, every occupied cell lies in columns
\* 0..width-1 and rows >= 0, the number of occupied cells is the sum of the
\* cell counts of the rocks added, height is one plus the highest occupied
\* row, and height never decreases from one rock to the next
C28_Chamber == [](C28_Cells) /\ [][C28_Grows]_vars

\* C28 witness: five rocks, one of each shape, have come to rest and the tower
\* is lower than the five of them piled up, so a rock came to rest beside another
C28_Witness ==
    /\ simulation # <<>>
    /\ simulation.chamber.nrocks >= 5
    /\ simulation.chamber.width = CHAMBER_WIDTH
    /\ Cardinality(RefOccupied(simulation.chamber)) >= 22
    /\ simulation.chamber.height < 13

\* day 17: the height of the tower after n rocks, simulated directly
C29_Simulated(n) == Run(NewSimulation(simulation.jets, CHAMBER_WIDTH), n).chamber.height

\* C29: for every jet pattern for which search_cycle returns (offset,
\* cycle_length, dheight) and every N >= offset + cycle_length, the height
\* main extrapolates for N rocks equals the height after simulating N rocks
C29_Extrapolation ==
    (/\ pc = "done"
     /\ repetition_pattern # "None"
     /\ total_rocks >= repetition_pattern[1] + repetition_pattern[2])
    => tower = C29_Simulated(total_rocks)

\* C29, what holds of the code: when search_cycle returns offset 0, the
\* extrapolated height is right for the three numbers of rocks search_cycle
\* simulated, cycle_length, 2 * cycle_length and 3 * cycle_length
C29_ExactWhereSampled ==
    (/\ pc = "done"
     /\ repetition_pattern # "None"
     /\ repetition_pattern[1] = 0
     /\ total_rocks \in { k * repetition_pattern[2] : k \in 1..3 })
    => tower = C29_Simulated(total_rocks)

C30_NoCubes ==
    (pc = "done" /\ cubes = {}) => (raised = ValueError /\ areas = <<0>>)

=============================================================================
